---- MODULE Spec2Model ----
(***************************************************************************)
(* Treasury HUB database sync engine (src/database_sync.py).               *)
(*                                                                         *)
(* The model covers the relational store (cash_positions,                  *)
(* cash_flow_forecast, key_metrics, sync_log), one synchronisation pass    *)
(* (ExcelDataExtractor.extract_and_sync and its three sub-syncs), the      *)
(* AutoSyncScheduler (start_scheduler / stop_scheduler, run either in the  *)
(* foreground or in the thread of start_background_scheduler) and the      *)
(* DataReader.  Two threads of control exist: "sched", the thread that     *)
(* executes start_scheduler, and "main", every other caller (the manual    *)
(* run of main(), a caller of stop_scheduler, the DataReader).             *)
(*                                                                         *)
(* One sub-sync is one SQLite transaction (python's sqlite3 opens the      *)
(* transaction at the first DELETE/INSERT and the sub-sync commits once at *)
(* its end; a connection dropped without commit rolls back), so each       *)
(* sub-sync is one atomic step; the steps of two passes interleave.        *)
(***************************************************************************)
EXTENDS Integers, Sequences, FiniteSets, TLC

(***************************************************************************)
(* Bounds of the model.                                                    *)
(***************************************************************************)
MaxPasses == 2          \* invocations of extract_and_sync in one behaviour
MaxClock == 2           \* last clock tick
TicksPerDay == 2        \* clock ticks in one calendar day
MaxSeedings == 2        \* runs of create_sample_data in one behaviour
MaxCalls == 3           \* accessor calls through the memo in one behaviour
MaxNow == 450           \* last second of the dashboard's clock
MaxDeals == 4           \* longest session list of FX deal requests

\* Offset (in ticks) of the local clock of datetime.now() from the UTC clock
\* SQLite uses for CURRENT_TIMESTAMP.
TZOffsets == {0, 1}

Executors == {"sched", "main"}

(***************************************************************************)
(* Spreadsheet cells.  pandas yields NaN for an empty cell, a number or a  *)
(* text.                                                                   *)
(***************************************************************************)
NaN == [t |-> "nan", n |-> 0, s |-> ""]
Num(x) == [t |-> "num", n |-> x, s |-> ""]
Str(x) == [t |-> "str", n |-> 0, s |-> x]

notna(c) == c.t # "nan"

\* pd.to_numeric(..., errors='coerce'): numbers pass, numeric text is parsed,
\* any other text and NaN become NaN.
to_numeric(c) ==
    CASE c.t = "num" -> c
      [] c.t = "str" /\ c.s = "250" -> Num(250)
      [] OTHER -> NaN

\* str(x): the text of a cell.
str(c) ==
    CASE c.t = "str" -> c.s
      [] c.t = "num" -> ToString(c.n)
      [] OTHER -> "nan"

\* str.strip() on the texts that occur in the modelled workbooks.
strip(s) ==
    CASE s = " Bank B " -> "Bank B"
      [] s = "Bank C  " -> "Bank C"
      [] s = "   " -> ""
      [] OTHER -> s

(***************************************************************************)
(* Workbooks.  Sheet7 is represented by its region rows 77..90, columns    *)
(* 1..2 (a sequence of <<bank cell, amount cell>>) and by whether it has   *)
(* the three columns the region needs.  "Information to feed dash" is      *)
(* represented by its column count, whether it has the seven rows the      *)
(* forecast reads, and its two month windows: a sequence of                *)
(* [label, inflow, outflow, net] cells for columns 1..12 and for 15..26.   *)
(***************************************************************************)
NoSheet == [present |-> FALSE, wide |-> FALSE, rows |-> <<>>,
            ncols |-> 0, tall |-> FALSE, w25 |-> <<>>, w24 |-> <<>>]

Sheet7Of(wide, rows) ==
    [present |-> TRUE, wide |-> wide, rows |-> rows,
     ncols |-> 0, tall |-> FALSE, w25 |-> <<>>, w24 |-> <<>>]

DashOf(ncols, tall, w25, w24) ==
    [present |-> TRUE, wide |-> FALSE, rows |-> <<>>,
     ncols |-> ncols, tall |-> tall, w25 |-> w25, w24 |-> w24]

Month(label, inflow, outflow, net) ==
    [label |-> label, inflow |-> inflow, outflow |-> outflow, net |-> net]

S7a == Sheet7Of(TRUE, << <<Str("Bank A"), Num(1500000)>>,
                         <<NaN, NaN>>,
                         <<Str("Bank B"), Str("not-a-number")>> >>)
S7b == Sheet7Of(TRUE, << <<Str(" Bank B "), Num(100)>>,
                         <<Str("Bank C  "), Str("250")>> >>)
S7narrow == Sheet7Of(FALSE, <<>>)
\* A Sheet7 whose amounts sum to 100, one of them in a row without a bank
\* name, and a Sheet7 with an empty region.
S7e == Sheet7Of(TRUE, << <<Str("Bank E"), Num(60)>>,
                         <<NaN, Num(40)>>,
                         <<Str("Bank F"), Str("n/a")>> >>)
S7empty == Sheet7Of(TRUE, <<>>)

Da == DashOf(27, TRUE,
             << Month(Str("Jan"), Num(10), Num(4), Num(5)),
                Month(NaN, Num(1), Num(1), Num(0)) >>,
             << Month(Str("Jan"), NaN, Str("x"), Num(7)) >>)
Db == DashOf(13, TRUE,
             << Month(Str("Feb"), Num(3), NaN, Num(3)) >>,
             << Month(Str("Dec"), Num(9), Num(9), Num(0)) >>)
Dshort == DashOf(13, FALSE, <<>>, <<>>)
\* A sheet that ends after row 4: the labels (row 2) and the net flows (row
\* 4) are there, rows 5 and 6 are not.
Dlow == DashOf(13, FALSE,
               << Month(Str("Jan"), NaN, NaN, Num(5)),
                  Month(Str("Feb"), NaN, NaN, Num(8)) >>,
               <<>>)

WorkbookOf(exists, dash, sheet7) ==
    [exists |-> exists, dash |-> dash, sheet7 |-> sheet7]

\* The workbooks the sync engine is run against: absent, complete, one of
\* the two sheets missing, and sheets too small for the addressed regions.
Workbooks ==
    { WorkbookOf(FALSE, NoSheet, NoSheet),
      WorkbookOf(TRUE, Da, S7a),
      WorkbookOf(TRUE, NoSheet, S7a),
      WorkbookOf(TRUE, Da, NoSheet),
      WorkbookOf(TRUE, Dshort, S7narrow) }


(***************************************************************************)
(* Configuration (src/config.py).                                          *)
(***************************************************************************)
SYNC_ON_STARTUP == TRUE
DAILY_SYNC_TIMES == <<"09:00", "17:00">>

\* The jobs start_scheduler registers with the schedule library: the
\* interval job and one job per daily wall-clock time.
IntervalJob == "every_interval"
DailyJobs == { DAILY_SYNC_TIMES[i] : i \in DOMAIN DAILY_SYNC_TIMES }
AllJobs == {IntervalJob} \cup DailyJobs

\* A scheduler whose jobs all pass 'AUTO'.
JobTag_AllAuto(job) == "AUTO"

\* The sync_type the lambda of each job passes to extract_and_sync.
JobTag(job) == IF job = IntervalJob THEN "AUTO" ELSE "SCHEDULED"

(***************************************************************************)
(* Dates.  datetime.now().date() is the local date; DATE(last_updated) is  *)
(* the UTC date of the CURRENT_TIMESTAMP default SQLite stamped.           *)
(***************************************************************************)
UtcDate(t) == t \div TicksPerDay
LocalDate(t, offset) == (t + offset) \div TicksPerDay

(***************************************************************************)
(* Sequence helpers.                                                       *)
(***************************************************************************)
RECURSIVE SumSeq(_)
SumSeq(q) == IF q = <<>> THEN 0 ELSE Head(q) + SumSeq(Tail(q))

RECURSIVE SeqOfSet(_)
SeqOfSet(S) ==
    IF S = {} THEN <<>>
    ELSE LET x == CHOOSE y \in S : TRUE IN <<x>> \o SeqOfSet(S \ {x})

IsPrefix(p, q) == Len(p) <= Len(q) /\ SubSeq(q, 1, Len(p)) = p

(***************************************************************************)
(* Domain mappers: what each sub-sync extracts from the sheets.            *)
(***************************************************************************)
\* A mapper that keeps the rows whose amount does not coerce, with amount 0.
PositionRecords_KeepAll(sheet7) ==
    LET present == SelectSeq(sheet7.rows,
                             LAMBDA r : notna(r[1]) /\ notna(r[2]))
    IN [i \in 1..Len(present) |->
          [bank_name |-> strip(str(present[i][1])),
           currency |-> "EUR",
           amount |-> IF notna(to_numeric(present[i][2]))
                      THEN to_numeric(present[i][2]).n ELSE 0]]

\* sync_cash_positions: rows with both cells present and a coercible amount.
PositionRecords(sheet7) ==
    LET present == SelectSeq(sheet7.rows,
                             LAMBDA r : notna(r[1]) /\ notna(r[2]))
        numeric == SelectSeq(present, LAMBDA r : notna(to_numeric(r[2])))
    IN [i \in 1..Len(numeric) |->
          [bank_name |-> strip(str(numeric[i][1])),
           currency |-> "EUR",
           amount |-> to_numeric(numeric[i][2]).n]]

\* pd.to_numeric(...).fillna(0)
NumOrZero(c) == IF notna(to_numeric(c)) THEN to_numeric(c).n ELSE 0

ForecastWindow(window, year, forecast_type) ==
    LET kept == SelectSeq(window,
                          LAMBDA m : str(m.label) # "" /\ str(m.label) # "nan")
    IN [i \in 1..Len(kept) |->
          [month |-> str(kept[i].label), year |-> year,
           inflow |-> NumOrZero(kept[i].inflow),
           outflow |-> NumOrZero(kept[i].outflow),
           net_flow |-> NumOrZero(kept[i].net),
           forecast_type |-> forecast_type]]

\* sync_cash_flow_forecast: the 2025 window when the sheet has more than 12
\* columns, the 2024 window when it has more than 26; reading a row the sheet
\* does not have raises inside the inner try, which ends the extraction with
\* what was inserted so far (nothing: the first read is the one that raises).
ForecastRecords(dash) ==
    IF dash.ncols > 12 /\ ~dash.tall THEN <<>>
    ELSE (IF dash.ncols > 12
             THEN ForecastWindow(dash.w25, 2025, "FORECAST") ELSE <<>>)
         \o (IF dash.ncols > 26
             THEN ForecastWindow(dash.w24, 2024, "HISTORICAL") ELSE <<>>)

\* A total that only counts the rows the position mapper keeps.
TotalBalance_NamedRowsOnly(sheet7) ==
    IF ~sheet7.wide THEN 0
    ELSE SumSeq([i \in 1..Len(sheet7.rows) |->
                   IF notna(sheet7.rows[i][1])
                   THEN to_numeric(sheet7.rows[i][2]).n ELSE 0])

\* sync_key_metrics: the sum of the coercible amounts, 0 when the column
\* cannot be read.
TotalBalance(sheet7) ==
    IF ~sheet7.wide THEN 0
    ELSE SumSeq([i \in 1..Len(sheet7.rows) |-> NumOrZero(sheet7.rows[i][2])])

\* Values are kept in tenths so that the 0.8 and 0.2 proportions are exact;
\* draw stands for the two random.uniform draws of the mock changes.
MetricRecords(sheet7, draw) ==
    LET total_balance == TotalBalance(sheet7)
    IN << [metric_name |-> "total_balance",
           metric_value |-> total_balance * 10, metric_change |-> draw * 10],
          [metric_name |-> "liquid_assets",
           metric_value |-> total_balance * 8, metric_change |-> draw * 8],
          [metric_name |-> "investment_grade",
           metric_value |-> total_balance * 2, metric_change |-> draw * 2] >>

RandomDraws == {0, 1}


(***************************************************************************)
(* State.                                                                  *)
(***************************************************************************)
VARIABLES
    clock,               \* UTC time in ticks
    tz,                  \* offset of the local clock, fixed for a behaviour
    workbook,            \* the Excel file as it is on disk now
    cash_positions,      \* table: set of rows
    cash_flow_forecast,  \* table: set of rows
    key_metrics,         \* table: set of rows
    sync_log,            \* table: rows in insertion (id) order
    jobs,                \* the schedule library's registered jobs
    is_running,          \* AutoSyncScheduler.is_running
    pending,             \* the due jobs run_pending still has to run
    pc,                  \* where each thread of control is
    call,                \* the extract_and_sync activation of each thread
    last,                \* the activation each thread finished last
    passes,              \* number of extract_and_sync invocations so far
    stop_called,         \* stop_scheduler was called while start_scheduler ran
    fx_deals,            \* table: rows in insertion (id) order
    seedings,            \* number of create_sample_data runs so far
    book,                \* the dashboard's workbook as it is on disk now
    result,              \* the latest accessor call and what it returned
    prior,               \* the accessor call before it
    now,                 \* the dashboard's clock, in seconds
    cache,               \* the memo of st.cache_data, per accessor
    calls,               \* number of accessor calls through the memo
    cleared,             \* value of calls at the last refresh, -1 if none
    edited,              \* value of now at the last workbook change, -1 if none
    session_fx_deals,    \* st.session_state.fx_deals: the page's deal requests
    db_lock,             \* the write lock of the SQLite database file
    tx                   \* per executor: the open transaction of its sub-sync

vars == <<clock, tz, workbook, cash_positions, cash_flow_forecast, key_metrics,
          sync_log, jobs, is_running, pending, pc, call, last, passes,
          stop_called, fx_deals, seedings, book, result, prior, now, cache,
          calls, cleared, edited, session_fx_deals, db_lock, tx>>

tables == <<cash_positions, cash_flow_forecast, key_metrics, sync_log>>
scheduler == <<jobs, is_running, pending, stop_called>>
environment == <<clock, tz, workbook>>
activations == <<call, last, passes>>
seeding == <<fx_deals, seedings>>
dashboard == <<book, result, prior, now, cache, calls, cleared, edited,
               session_fx_deals>>

\* The state the sync engine's passes and scheduler leave alone.
locking == <<db_lock, tx>>
extension == <<seeding, dashboard, locking>>

\* No activation.
NoCall ==
    [id |-> 0, trigger |-> "", sync_type |-> "", return_to |-> "",
     day |-> 0, book |-> WorkbookOf(FALSE, NoSheet, NoSheet),
     dash_sheet |-> NoSheet, sheet7 |-> NoSheet,
     error |-> FALSE, error_msg |-> <<>>,
     records_processed |-> 0, counts |-> <<>>, raised |-> {}, wrote |-> {},
     status |-> "", logged |-> FALSE, ret |-> FALSE, after |-> <<>>]

(***************************************************************************)
(* The dashboard's side: the workbook as the accessors of                  *)
(* treasury_hub_main_app.py see it, what an accessor call returns and the  *)
(* entries of the memo.                                                    *)
(***************************************************************************)
\* A sheet that read_excel does not find.
NoLista == [present |-> FALSE, nrows |-> 0, cols |-> <<>>, accounts |-> 0]
NoTabelas == [present |-> FALSE, nrows |-> 0, ncols |-> 0, banks |-> <<>>,
              total |-> NaN]

\* at: where os.path.exists finds the file ("cwd", "data") or "absent".
BookOf(at, lista, tabelas) == [at |-> at, lista |-> lista, tabelas |-> tabelas]

\* The result of an accessor: raised tells whether an exception left it,
\* path which return statement produced it ("real": computed from the
\* sheets, "fallback": one of the substitutes), out is the returned value.
Returns(path, out) == [raised |-> FALSE, path |-> path, out |-> out]
Raises == [raised |-> TRUE, path |-> "raised", out |-> [error |-> TRUE]]

Accessors ==
    {"get_daily_cash_flow", "get_executive_summary", "get_latest_variation",
     "get_dynamic_liquidity_data", "get_bank_positions_from_tabelas"}

\* What a call of an accessor leaves in result: the accessor, the workbook
\* it was called against, what it returned, whether its body ran (it does
\* not when the memo answers) and, for get_dynamic_liquidity_data, what the
\* scan made of each column.
NoResult ==
    [accessor |-> "", book |-> BookOf("absent", NoLista, NoTabelas),
     res |-> Returns("", [none |-> TRUE]), ran |-> FALSE, scan |-> <<>>]

\* An empty slot of the memo.
NoEntry == [present |-> FALSE, res |-> Returns("", [none |-> TRUE]), at |-> 0]

\* The write lock of the database file: not held, held by the live
\* connection of an executor, or held by a connection that was dropped
\* with its transaction open and is not finalised yet.
FreeLock == [held |-> FALSE, by |-> "", live |-> FALSE]

\* No open transaction.
NoTx == [open |-> FALSE, table |-> "", n |-> 0]

Init ==
    /\ clock = 0
    /\ tz \in TZOffsets
    /\ workbook \in Workbooks
    /\ cash_positions = {}
    /\ cash_flow_forecast = {}
    /\ key_metrics = {}
    /\ sync_log = <<>>
    /\ jobs = {}
    /\ is_running = FALSE
    /\ pending = <<>>
    /\ pc = [e \in Executors |-> IF e = "main" THEN "boot" ELSE "idle"]
    /\ call = [e \in Executors |-> NoCall]
    /\ last = [e \in Executors |-> NoCall]
    /\ passes = 0
    /\ stop_called = FALSE
    /\ fx_deals = <<>>
    /\ seedings = 0
    /\ book = BookOf("absent", NoLista, NoTabelas)
    /\ result = NoResult
    /\ prior = NoResult
    /\ now = 0
    /\ cache = [a \in Accessors |-> NoEntry]
    /\ calls = 0
    /\ cleared = -1
    /\ edited = -1
    /\ session_fx_deals = <<>>
    /\ db_lock = FreeLock
    /\ tx = [e \in Executors |-> NoTx]

(***************************************************************************)
(* The environment: time passes, the user replaces the workbook by one of  *)
(* the workbooks in books.                                                 *)
(***************************************************************************)
Tick ==
    /\ clock < MaxClock
    /\ clock' = clock + 1
    /\ UNCHANGED <<extension,
                   tz, workbook, tables, scheduler, pc, activations>>

EditWorkbook(books) ==
    /\ \E w \in books \ {workbook} : workbook' = w
    /\ UNCHANGED <<extension, clock, tz, tables, scheduler, pc, activations>>

(***************************************************************************)
(* TreasuryDatabase.init_database: CREATE TABLE IF NOT EXISTS for the five *)
(* tables and the indexes; existing rows are kept.                         *)
(***************************************************************************)
InitDatabase ==
    /\ pc["main"] = "boot"
    /\ pc' = [pc EXCEPT !["main"] = "ready"]
    /\ UNCHANGED <<extension, environment, tables, scheduler, activations>>

(***************************************************************************)
(* ExcelDataExtractor.extract_and_sync, entered by thread e for trigger.   *)
(* It checks the file, reads the two sheets, and either goes on to the     *)
(* sub-syncs or to the ERROR log of its except clause.                     *)
(***************************************************************************)
ReadFailure(wb) ==
    IF ~wb.dash.present
        THEN "Worksheet named 'Information to feed dash' not found"
        ELSE "Worksheet named 'Sheet7' not found"

NewCall(id, trigger, sync_type, return_to) ==
    LET found == workbook.exists
        loaded == found /\ workbook.dash.present /\ workbook.sheet7.present
    IN [id |-> id, trigger |-> trigger, sync_type |-> sync_type,
        return_to |-> return_to,
        day |-> LocalDate(clock, tz),   \* the local date at entry
        book |-> workbook,              \* the workbook as it was at entry
        dash_sheet |-> IF loaded THEN workbook.dash ELSE NoSheet,
        sheet7 |-> IF loaded THEN workbook.sheet7 ELSE NoSheet,
        error |-> ~loaded,     \* the top-level except clause is entered
        error_msg |-> IF loaded THEN <<>>
                      ELSE IF ~found THEN <<"Excel file not found">>
                      ELSE <<"Failed to read Excel sheets",
                             ReadFailure(workbook)>>,
        records_processed |-> 0,
        counts |-> <<>>,       \* what each sub-sync returned, in order
        raised |-> {},         \* the sub-syncs whose store write raised
        wrote |-> {},          \* <<sub-sync, local date>> of each commit
        status |-> "",         \* the status handed to log_sync_status
        logged |-> FALSE,      \* log_sync_status inserted the row
        ret |-> FALSE,         \* the value returned to the caller
        after |-> <<>>]        \* the tables' domain rows at the return

\* An extract_and_sync that runs the sub-syncs whatever the reads gave.
EntryStep_RunAnyway(error) == "positions"

\* Where extract_and_sync goes after the file check and the sheet reads:
\* to its except clause when one of them raised, else to the sub-syncs.
EntryStep(error) == IF error THEN "log" ELSE "positions"

extract_and_sync(e, trigger, sync_type, return_to) ==
    /\ passes < MaxPasses
    /\ passes' = passes + 1
    /\ call' = [call EXCEPT
                   ![e] = NewCall(passes + 1, trigger, sync_type, return_to)]
    /\ pc' = [pc EXCEPT ![e] = EntryStep(call'[e].error)]
    /\ UNCHANGED <<extension, environment, tables, last>>

\* Sub-syncs without their own except clause.
SubSyncRaises_Propagate(store_raised) == store_raised

\* Whether a store error inside a sub-sync reaches extract_and_sync: each
\* sub-sync catches every Exception, logs it and returns 0.
SubSyncRaises(store_raised) == FALSE

\* The bookkeeping of one sub-sync: it returned count.
AfterSubSync(e, name, count, store_raised, committed, next_step) ==
    /\ call' = [call EXCEPT
           ![e].records_processed =
               IF SubSyncRaises(store_raised) THEN @ ELSE @ + count,
           ![e].counts = IF SubSyncRaises(store_raised) THEN @
                         ELSE Append(@, count),
           ![e].error = @ \/ SubSyncRaises(store_raised),
           ![e].error_msg = IF SubSyncRaises(store_raised)
                            THEN <<"database error">> ELSE @,
           ![e].raised = IF store_raised THEN @ \cup {name} ELSE @,
           ![e].wrote = IF committed
                        THEN @ \cup {<<name, LocalDate(clock, tz)>>} ELSE @]
    /\ pc' = [pc EXCEPT ![e] =
                 IF SubSyncRaises(store_raised) THEN "log" ELSE next_step]

\* A delete that is scoped by "up to today" instead of "today".
DeleteToday_UpToToday(table, today) ==
    { r \in table : UtcDate(r.last_updated) > today }

\* DELETE FROM <table> WHERE DATE(last_updated) = today
DeleteToday(table, today) == { r \in table : UtcDate(r.last_updated) # today }

\* The rows one sub-sync inserts: pass and k stand for the AUTOINCREMENT id,
\* last_updated is the CURRENT_TIMESTAMP default.
Stamp(records, id) ==
    { [pass |-> id, k |-> i, last_updated |-> clock, data |-> records[i]] :
        i \in 1..Len(records) }

\* sync_cash_positions.  A store error (connect, execute or commit raising;
\* faults is the set of outcomes the store can take) and the IndexError of a
\* Sheet7 without column 2 both end in the except clause: nothing is
\* committed and 0 is returned.
sync_cash_positions(e, faults) ==
    /\ pc[e] = "positions"
    /\ \E store_raises \in faults :
         LET sheet7 == call[e].sheet7
             records == PositionRecords(sheet7)
             failed == store_raises \/ ~sheet7.wide
         IN /\ cash_positions' =
                  IF failed THEN cash_positions
                  ELSE DeleteToday(cash_positions, LocalDate(clock, tz))
                       \cup Stamp(records, call[e].id)
            /\ AfterSubSync(e, "positions", IF failed THEN 0 ELSE Len(records),
                            store_raises, ~failed, "forecast")
    /\ UNCHANGED <<extension,
                   environment, cash_flow_forecast, key_metrics, sync_log,
                   scheduler, last, passes>>

\* sync_cash_flow_forecast.
sync_cash_flow_forecast(e, faults) ==
    /\ pc[e] = "forecast"
    /\ \E store_raises \in faults :
         LET records == ForecastRecords(call[e].dash_sheet)
         IN /\ cash_flow_forecast' =
                  IF store_raises THEN cash_flow_forecast
                  ELSE DeleteToday(cash_flow_forecast, LocalDate(clock, tz))
                       \cup Stamp(records, call[e].id)
            /\ AfterSubSync(e, "forecast",
                            IF store_raises THEN 0 ELSE Len(records),
                            store_raises, ~store_raises, "metrics")
    /\ UNCHANGED <<extension,
                   environment, cash_positions, key_metrics, sync_log,
                   scheduler, last, passes>>

\* A plain INSERT into a key_metrics without its UNIQUE constraint.
InsertOrReplace_Append(table, rows) == table \cup rows

\* INSERT OR REPLACE INTO key_metrics: metric_name is UNIQUE, the row of the
\* same name is replaced.
InsertOrReplace(table, rows) ==
    { r \in table :
        \A n \in rows : n.data.metric_name # r.data.metric_name } \cup rows

\* sync_key_metrics.
sync_key_metrics(e, faults, draws) ==
    /\ pc[e] = "metrics"
    /\ \E store_raises \in faults, draw \in draws :
         LET metrics == MetricRecords(call[e].sheet7, draw)
         IN /\ key_metrics' =
                  IF store_raises THEN key_metrics
                  ELSE InsertOrReplace(
                           DeleteToday(key_metrics, LocalDate(clock, tz)),
                           Stamp(metrics, call[e].id))
            /\ AfterSubSync(e, "metrics",
                            IF store_raises THEN 0 ELSE Len(metrics),
                            store_raises, ~store_raises, "log")
    /\ UNCHANGED <<extension,
                   environment, cash_positions, cash_flow_forecast, sync_log,
                   scheduler, last, passes>>

\* A pass that counts as failed when it processed no record.
FinalStatus_ZeroIsError(error, records) ==
    IF error \/ records = 0 THEN "ERROR" ELSE "SUCCESS"

\* The status extract_and_sync hands to log_sync_status: "ERROR" from its
\* except clause, "SUCCESS" at the end of its try block whatever the count.
FinalStatus(error, records) == IF error THEN "ERROR" ELSE "SUCCESS"

\* An extract_and_sync that returns True once it has logged.
ReturnValue_AlwaysTrue(error) == TRUE

\* The value extract_and_sync returns.
ReturnValue(error) == ~error

\* An extract_and_sync that re-raises: the Exception reaches the except
\* clause of start_scheduler, which stops the scheduler and returns.
ReturnPoint_Reraise(return_to, error) ==
    IF error /\ return_to = "run_pending" THEN "exited" ELSE return_to

\* Where control goes when extract_and_sync ends: it returns to its caller,
\* no Exception leaves it.
ReturnPoint(return_to, error) == return_to

\* A log row that records what the last sub-sync returned.
LogRow_LastCount(c) ==
    [pass |-> c.id,
     trigger |-> c.trigger,
     sync_timestamp |-> clock,
     status |-> IF c.error THEN "ERROR" ELSE "SUCCESS",
     records_processed |-> IF c.error \/ c.counts = <<>> THEN 0
                           ELSE c.counts[Len(c.counts)],
     error_message |-> c.error_msg,
     sync_type |-> c.sync_type]

\* The row log_sync_status inserts for an activation; pass and trigger
\* identify the invocation the row belongs to.
LogRow(c) ==
    [pass |-> c.id,
     trigger |-> c.trigger,
     sync_timestamp |-> clock,
     status |-> FinalStatus(c.error, c.records_processed),
     records_processed |-> IF c.error THEN 0 ELSE c.records_processed,
     error_message |-> c.error_msg,
     sync_type |-> c.sync_type]

\* The domain rows of a table: for each row content (ids and timestamps
\* left out) the number of rows that carry it.
DomainRows(table) ==
    [d \in { r.data : r \in table } |->
        Cardinality({ r \in table : r.data = d })]

\* The mock change of a metric is a fresh random draw in every pass and is
\* not part of what a pass extracts from the workbook.
MetricRows(table) ==
    { [metric_name |-> r.data.metric_name,
       metric_value |-> r.data.metric_value] : r \in table }

DomainTables ==
    <<DomainRows(cash_positions), DomainRows(cash_flow_forecast),
      MetricRows(key_metrics)>>

\* The activation as it is when extract_and_sync returns.
Finish(c, inserted) ==
    [c EXCEPT !.status = FinalStatus(c.error, c.records_processed),
              !.logged = inserted,
              !.ret = ReturnValue(c.error),
              !.after = DomainTables]

\* A log_sync_status that keeps one row per sync_type: it replaces the row
\* of the same sync_type instead of appending.
log_sync_status_Upsert(e, faults) ==
    /\ pc[e] = "log"
    /\ \E store_raises \in faults :
         /\ sync_log' =
                IF store_raises THEN sync_log
                ELSE Append(SelectSeq(sync_log,
                                LAMBDA r : r.sync_type # call[e].sync_type),
                            LogRow(call[e]))
         /\ last' = [last EXCEPT ![e] = Finish(call[e], ~store_raises)]
    /\ call' = [call EXCEPT ![e] = NoCall]
    /\ pc' = [pc EXCEPT ![e] = ReturnPoint(call[e].return_to, call[e].error)]
    /\ UNCHANGED <<extension, environment, cash_positions, cash_flow_forecast,
                   key_metrics, scheduler, passes>>

\* log_sync_status followed by the return of extract_and_sync.  A store
\* error while inserting the row is caught and only written to the logger.
log_sync_status(e, faults) ==
    /\ pc[e] = "log"
    /\ \E store_raises \in faults :
         /\ sync_log' = IF store_raises THEN sync_log
                        ELSE Append(sync_log, LogRow(call[e]))
         /\ last' = [last EXCEPT ![e] = Finish(call[e], ~store_raises)]
    /\ call' = [call EXCEPT ![e] = NoCall]
    /\ pc' = [pc EXCEPT ![e] = ReturnPoint(call[e].return_to, call[e].error)]
    /\ UNCHANGED <<extension, environment, cash_positions, cash_flow_forecast,
                   key_metrics, scheduler, passes>>

(***************************************************************************)
(* main(): the single manual run.                                          *)
(***************************************************************************)
ManualSync ==
    /\ pc["main"] = "ready"
    /\ extract_and_sync("main", "manual", "MANUAL", "ready")
    /\ UNCHANGED scheduler

(***************************************************************************)
(* AutoSyncScheduler.start_scheduler, executed by the thread "sched".      *)
(***************************************************************************)
\* schedule.clear()
StartScheduler ==
    /\ pc["main"] # "boot"
    /\ pc["sched"] = "idle"
    /\ jobs' = {}
    /\ pc' = [pc EXCEPT !["sched"] = "register"]
    /\ UNCHANGED <<extension,
                   environment, tables, is_running, pending, stop_called,
                   activations>>

\* schedule.every(...).do(...) for the interval and for each daily time.
RegisterJobs ==
    /\ pc["sched"] = "register"
    /\ jobs' = jobs \cup AllJobs
    /\ pc' = [pc EXCEPT !["sched"] =
                 IF SYNC_ON_STARTUP THEN "startup" ELSE "set_running"]
    /\ UNCHANGED <<extension,
                   environment, tables, is_running, pending, stop_called,
                   activations>>

\* The initial sync.
StartupSync ==
    /\ pc["sched"] = "startup"
    /\ extract_and_sync("sched", "startup", "STARTUP", "set_running")
    /\ UNCHANGED scheduler

\* self.is_running = True
SetRunning ==
    /\ pc["sched"] = "set_running"
    /\ is_running' = TRUE
    /\ pc' = [pc EXCEPT !["sched"] = "loop"]
    /\ UNCHANGED <<extension, environment, tables, jobs, pending, stop_called,
                   activations>>

\* while self.is_running: schedule.run_pending() collects the jobs that are
\* due (any of the registered ones, depending on the time) before it runs
\* the first of them.
LoopCheck ==
    /\ pc["sched"] = "loop"
    /\ IF is_running
          THEN /\ \E due \in SUBSET jobs : pending' = SeqOfSet(due)
               /\ pc' = [pc EXCEPT !["sched"] = "run_pending"]
          ELSE /\ pending' = pending
               /\ pc' = [pc EXCEPT !["sched"] = "exited"]
    /\ UNCHANGED <<extension,
                   environment, tables, jobs, is_running, stop_called,
                   activations>>

\* run_pending runs the next collected job: its lambda calls
\* extract_and_sync with the job's tag.
RunJob ==
    /\ pc["sched"] = "run_pending"
    /\ pending # <<>>
    /\ extract_and_sync("sched", Head(pending), JobTag(Head(pending)),
                        "run_pending")
    /\ pending' = Tail(pending)
    /\ UNCHANGED <<jobs, is_running, stop_called>>

\* time.sleep(60), then back to the loop condition.
Sleep ==
    /\ pc["sched"] = "run_pending"
    /\ pending = <<>>
    /\ pc' = [pc EXCEPT !["sched"] = "loop"]
    /\ UNCHANGED <<extension, environment, tables, scheduler, activations>>

\* AutoSyncScheduler.stop_scheduler, called from another thread.
StopScheduler ==
    /\ pc["main"] = "ready"
    /\ is_running' = FALSE
    /\ jobs' = {}
    /\ stop_called' = (stop_called \/ pc["sched"] \notin {"idle", "exited"})
    /\ UNCHANGED <<extension, environment, tables, pending, pc, activations>>

(***************************************************************************)
(* DataReader.get_sync_status: the newest sync_log row by sync_timestamp   *)
(* (any of them when several carry the same timestamp), projected on the   *)
(* selected columns; the empty frame when there is none.                   *)
(***************************************************************************)
get_sync_status(log) ==
    { <<log[i].sync_timestamp, log[i].status, log[i].records_processed,
        log[i].sync_type>> :
        i \in { k \in DOMAIN log :
                  \A j \in DOMAIN log :
                     log[j].sync_timestamp <= log[k].sync_timestamp } }

\* main() in status mode: it queries and prints the status, then the process
\* ends; the next run of main() initialises the database again.
GetSyncStatus ==
    /\ pc["main"] = "ready"
    /\ pc' = [pc EXCEPT !["main"] = "boot"]
    /\ UNCHANGED <<extension, environment, tables, scheduler, activations>>

(***************************************************************************)
(* create_sample_data: seeds four cash positions and three FX deals in one *)
(* transaction of its own connection.                                      *)
(***************************************************************************)
sample_banks ==
    << [bank_name |-> "Bank A", currency |-> "EUR", amount |-> 1500000],
       [bank_name |-> "Bank B", currency |-> "EUR", amount |-> 2300000],
       [bank_name |-> "Bank C", currency |-> "USD", amount |-> 1800000],
       [bank_name |-> "Bank D", currency |-> "GBP", amount |-> 900000] >>

\* Rates are kept in ten-thousandths.
sample_fx ==
    << [deal_id |-> "FX001", deal_type |-> "SELL", currency |-> "USD",
        amount |-> 100000, rate |-> 10850, counterpart |-> "Bank X",
        deal_date |-> "2025-01-20"],
       [deal_id |-> "FX002", deal_type |-> "BUY", currency |-> "GBP",
        amount |-> 50000, rate |-> 8650, counterpart |-> "Bank Y",
        deal_date |-> "2025-01-21"],
       [deal_id |-> "FX003", deal_type |-> "SELL", currency |-> "EUR",
        amount |-> 200000, rate |-> 10000, counterpart |-> "Bank Z",
        deal_date |-> "2025-01-22"] >>

\* An fx_deals whose deal_id column carries no constraint.
UniqueViolation_Never(table, row) == FALSE

\* deal_id TEXT UNIQUE: the store raises IntegrityError for an INSERT whose
\* deal_id a row of the table already carries.
UniqueViolation(table, row) ==
    \E i \in DOMAIN table : table[i].deal_id = row.deal_id

\* The INSERTs of a sequence of rows in one transaction: the table they
\* give, and whether one of them raised (the later ones are then not run).
RECURSIVE InsertDeals(_, _)
InsertDeals(table, rows) ==
    IF rows = <<>> THEN [raised |-> FALSE, table |-> table]
    ELSE IF UniqueViolation(table, Head(rows))
            THEN [raised |-> TRUE, table |-> table]
            ELSE InsertDeals(Append(table, Head(rows)), Tail(rows))

\* create_sample_data.  When an INSERT raises (the UNIQUE constraint, or a
\* store error) the except clause prints the error; the connection is
\* dropped without commit, which rolls the whole transaction back.
\* The seeded cash positions carry the negated number of the run where the
\* rows of a pass carry the number of the pass.
create_sample_data(faults) ==
    /\ pc["main"] = "ready"
    /\ seedings < MaxSeedings
    /\ seedings' = seedings + 1
    /\ \E store_raises \in faults :
         LET deals == InsertDeals(fx_deals, sample_fx)
             committed == ~store_raises /\ ~deals.raised
         IN /\ fx_deals' = IF committed THEN deals.table ELSE fx_deals
            /\ cash_positions' =
                  IF committed
                     THEN cash_positions \cup Stamp(sample_banks, -seedings')
                     ELSE cash_positions
    /\ UNCHANGED <<dashboard, locking, environment, cash_flow_forecast,
                   key_metrics,
                   sync_log, scheduler, pc, activations>>

(***************************************************************************)
(* The dashboard's read accessors (src/treasury_hub_main_app.py).  They    *)
(* read "TREASURY DASHBOARD.xlsx" from the working directory or from       *)
(* data/, sheets 'Lista contas' and 'Tabelas'.                             *)
(*                                                                         *)
(* 'Lista contas' is represented by its row count, by its columns (for     *)
(* each column the cells of rows 0, 1, 98, 100 and 101) and by the number  *)
(* of rows 2..97 that hold a value.  'Tabelas' is represented by its row   *)
(* and column counts, the cells of columns 1 and 2 in rows 78..90 (rows    *)
(* the sequence does not list are empty) and the cell at row 91, column 2. *)
(* Dates are day numbers, 1 being 1900-01-01.                              *)
(***************************************************************************)
\* A native date cell (pandas reads it as a Timestamp).
Date(d) == [t |-> "date", n |-> d, s |-> ""]

Column(r0, r1, r98, r100, r101) ==
    [r0 |-> r0, r1 |-> r1, r98 |-> r98, r100 |-> r100, r101 |-> r101]

ListaOf(nrows, accounts, cols) ==
    [present |-> TRUE, nrows |-> nrows, cols |-> cols, accounts |-> accounts]

TabelasOf(nrows, ncols, banks, total) ==
    [present |-> TRUE, nrows |-> nrows, ncols |-> ncols, banks |-> banks,
     total |-> total]


\* float(x) of a cell that is not NaN: a number is itself, a numeric text is
\* parsed, any other text raises ValueError and a Timestamp TypeError.
FloatTexts == "2500000" :> 2500000 @@ "0" :> 0
float_raises(c) == c.t = "date" \/ (c.t = "str" /\ c.s \notin DOMAIN FloatTexts)
float(c) == IF c.t = "str" THEN FloatTexts[c.s] ELSE c.n

\* x != 0 of a cell: a text or a Timestamp never equals 0.
NotZero(c) == c.t # "num" \/ c.n # 0

\* str.upper() and the substring test, on the header texts of the modelled
\* sheets.
upper(s) ==
    CASE s = "Valor EUR" -> "VALOR EUR"
      [] s = "valor (eur)" -> "VALOR (EUR)"
      [] s = "Valor USD" -> "VALOR USD"
      [] s = "Saldo Eur" -> "SALDO EUR"
      [] OTHER -> s
contains(s, sub) ==
    CASE sub = "VALOR" -> s \in {"VALOR EUR", "VALOR (EUR)", "VALOR USD"}
      [] sub = "EUR" -> s \in {"VALOR EUR", "VALOR (EUR)", "SALDO EUR"}
      [] OTHER -> FALSE

\* The texts each attempt of the date coercion parses, with their dates:
\* format '%d-%b-%y', then format '%d/%m/%Y', then pd.to_datetime's own
\* inference.
DayAbbrevMonthYear == "05-Aug-25" :> 45873 @@ "13-Aug-25" :> 45881
DayMonthYear == "01/07/2025" :> 45838
Inferred == "2025-09-10" :> 45909

\* The date coercion of get_dynamic_liquidity_data: whether it raises and
\* the date it gives.
date_raises(c) ==
    c.t = "str" /\ strip(c.s) \notin (DOMAIN DayAbbrevMonthYear
                                       \cup DOMAIN DayMonthYear
                                       \cup DOMAIN Inferred)
parsed_date(c) ==
    CASE c.t = "str" /\ strip(c.s) \in DOMAIN DayAbbrevMonthYear ->
             DayAbbrevMonthYear[strip(c.s)]
      [] c.t = "str" /\ strip(c.s) \in DOMAIN DayMonthYear ->
             DayMonthYear[strip(c.s)]
      [] c.t = "str" -> Inferred[strip(c.s)]
      \* an Excel serial: datetime(1900, 1, 1) + (serial - 2) days past 59,
      \* + (serial - 1) days up to it
      [] c.t = "num" -> IF c.n > 59 THEN 1 + (c.n - 2) ELSE 1 + (c.n - 1)
      [] OTHER -> c.n

\* A scan that matches a header on "VALOR" alone.
HeaderMatches_ValorOnly(header) ==
    notna(header) /\ contains(upper(str(header)), "VALOR")

\* The header test of the scan.
HeaderMatches(header) ==
    /\ notna(header)
    /\ contains(upper(str(header)), "VALOR")
    /\ contains(upper(str(header)), "EUR")

Skipped == [ok |-> FALSE, date |-> 0, value |-> 0]

\* What the scan of get_dynamic_liquidity_data makes of column i (the i-th
\* column, col_index i - 1): skipped, or a sample with its date and its
\* value in tenths of a million.
LiquiditySample(sheet, i) ==
    IF sheet.nrows < 2 THEN Skipped            \* iloc[1, ...] raises
    ELSE IF ~HeaderMatches(sheet.cols[i].r1) THEN Skipped
    ELSE IF (i - 1) - 2 < 0 THEN Skipped
    ELSE IF sheet.nrows <= 98 THEN Skipped
    ELSE LET date_value == sheet.cols[i - 2].r0
             eur_value == sheet.cols[i].r98
         IN IF ~(notna(date_value) /\ notna(eur_value) /\ NotZero(eur_value))
               THEN Skipped
            ELSE IF date_raises(date_value) THEN Skipped
            ELSE IF float_raises(eur_value) THEN Skipped
            ELSE [ok |-> TRUE, date |-> parsed_date(date_value),
                  value |-> float(eur_value) \div 100000]

\* The samples in column order.
RECURSIVE Scan(_, _)
Scan(sheet, i) ==
    IF i > Len(sheet.cols) THEN <<>>
    ELSE (IF LiquiditySample(sheet, i).ok
             THEN <<LiquiditySample(sheet, i)>> ELSE <<>>)
         \o Scan(sheet, i + 1)

\* list.sort(key=date): stable, ascending.
RECURSIVE InsertByDate(_, _)
InsertByDate(sorted, x) ==
    IF sorted = <<>> THEN <<x>>
    ELSE IF x.date < Head(sorted).date THEN <<x>> \o sorted
    ELSE <<Head(sorted)>> \o InsertByDate(Tail(sorted), x)

RECURSIVE SortByDate(_)
SortByDate(q) ==
    IF q = <<>> THEN <<>>
    ELSE InsertByDate(SortByDate(SubSeq(q, 1, Len(q) - 1)), q[Len(q)])

WindowDays == 30

\* A filter that keeps what is strictly inside the window.
Windowed_Strict(sorted) ==
    LET cutoff_date == sorted[Len(sorted)].date - WindowDays
    IN SelectSeq(sorted, LAMBDA x : x.date > cutoff_date)

\* The samples not older than 30 days before the latest one.
Windowed(sorted) ==
    LET cutoff_date == sorted[Len(sorted)].date - WindowDays
    IN SelectSeq(sorted, LAMBDA x : x.date >= cutoff_date)


\* An accessor without its try/except.
Handled_Reraise(outcome, fallback) == outcome

\* try: ... except: return <fallback>
Handled(outcome, fallback) == IF outcome.raised THEN fallback ELSE outcome

get_sample_liquidity_data ==
    [dates |-> <<45873, 45874, 45875, 45876, 45879, 45880, 45881>>,
     values |-> <<285, 302, 318, 294, 321, 317, 326>>,
     source |-> [tag |-> "Sample Data (Excel not found)", days |-> 0]]

get_dynamic_liquidity_data(b) ==
    LET sample == Returns("fallback", get_sample_liquidity_data)
        series == Windowed(SortByDate(Scan(b.lista, 1)))
    IN IF b.at = "absent" THEN sample
       ELSE Handled(
              IF ~b.lista.present THEN Raises       \* read_excel raises
              ELSE IF Scan(b.lista, 1) # <<>>
                 THEN Returns("real",
                        [dates |-> [k \in DOMAIN series |-> series[k].date],
                         values |-> [k \in DOMAIN series |-> series[k].value],
                         source |-> [tag |-> "Excel Real Data",
                                     days |-> Len(series)],
                         columns_found |-> <<>>])
                 ELSE sample,
              sample)

\* The text of an amount: f"EUR {v:,.0f}" and its signed variants.
Money(prefix, v) == [prefix |-> prefix, amount |-> IF v < 0 THEN -v ELSE v]

\* Whether float() accepts the cell of a scan: a cell that is NaN is not
\* looked at, a cell float() rejects is passed over.
Numeric(c) == notna(c) /\ ~float_raises(c)

\* The last element of a sequence that satisfies Test, 0 when none does.
LastValue(cells, Test(_)) ==
    LET hits == SelectSeq(cells, Test)
    IN IF hits = <<>> THEN 0 ELSE float(hits[Len(hits)])

\* A scan that starts at column 0.
FirstFromRight_LeftToRight(hits) == hits[1]

\* for col_index in range(shape[1] - 1, -1, -1): of the cells that qualify,
\* in column order, the one the scan meets first.
FirstFromRight(hits) == hits[Len(hits)]

\* The first element, from the right, that satisfies Test.
RightMost(cells, Test(_)) == FirstFromRight(SelectSeq(cells, Test))

ZeroCashFlow ==
    [cash_flow |-> 0, cash_flow_text |-> Money("EUR", 0),
     percentage |-> 0,
     percentage_text |-> [sign |-> "+", hundredths |-> 0],
     percentage_color |-> "positive"]

\* get_daily_cash_flow: a left-to-right scan of rows 100 and 101 that keeps
\* the last numeric non-zero cell of row 100 and the last numeric cell of
\* row 101.  The cells of row 101 hold hundredths; a percentage below 1 in
\* absolute value is displayed times 100.
get_daily_cash_flow(b) ==
    LET fallback == Returns("fallback", ZeroCashFlow)
        sheet == b.lista
        row100 == [i \in DOMAIN sheet.cols |-> sheet.cols[i].r100]
        row101 == [i \in DOMAIN sheet.cols |-> sheet.cols[i].r101]
        cash_flow_value ==
            LastValue(row100, LAMBDA c : Numeric(c) /\ float(c) # 0)
        percentage_value == LastValue(row101, Numeric)
        display_percentage ==
            IF percentage_value < 100 /\ percentage_value > -100
               THEN percentage_value * 100
               ELSE percentage_value
    IN IF b.at = "absent" THEN fallback
       ELSE Handled(
              IF ~sheet.present THEN Raises         \* read_excel raises
              ELSE IF sheet.nrows <= 101 THEN fallback
              ELSE Returns("real",
                     [cash_flow |-> cash_flow_value,
                      cash_flow_text |->
                          IF cash_flow_value >= 0
                             THEN Money("EUR", cash_flow_value)
                             ELSE Money("-EUR", cash_flow_value),
                      percentage |-> percentage_value,
                      percentage_text |->
                          [sign |-> IF percentage_value >= 0 THEN "+" ELSE "",
                           hundredths |-> display_percentage],
                      percentage_color |->
                          IF percentage_value >= 0 THEN "positive"
                          ELSE "negative"]),
              fallback)

ZeroVariation ==
    [variation |-> 0, text |-> Money("+EUR", 0), color |-> "positive"]

\* A variation that is always shown as a gain.
VariationColor_AlwaysPositive(v) == "positive"

\* The classification by sign.
VariationColor(v) == IF v >= 0 THEN "positive" ELSE "negative"

\* get_latest_variation: a right-to-left scan of row 100 that returns at
\* the first numeric non-zero cell.
get_latest_variation(b) ==
    LET fallback == Returns("fallback", ZeroVariation)
        sheet == b.lista
        row100 == [i \in DOMAIN sheet.cols |-> sheet.cols[i].r100]
        Hit(c) == Numeric(c) /\ float(c) # 0
        numeric_value == float(RightMost(row100, Hit))
    IN IF b.at = "absent" THEN fallback
       ELSE Handled(
              IF ~sheet.present THEN Raises         \* read_excel raises
              ELSE IF sheet.nrows <= 100 THEN fallback
              ELSE IF SelectSeq(row100, Hit) # <<>>
                 THEN Returns("real",
                        [variation |-> numeric_value,
                         text |-> IF numeric_value >= 0
                                     THEN Money("+EUR", numeric_value)
                                     ELSE Money("-EUR", numeric_value),
                         color |-> VariationColor(numeric_value)])
                 \* the return after the loop
                 ELSE Returns("real", ZeroVariation),
              fallback)

\* total_liquidity is kept in tenths of a million; t stands for
\* datetime.now().strftime("%H:%M").
SummaryFallback(t) ==
    [total_liquidity |-> 326, bank_accounts |-> 96, active_banks |-> 13,
     last_updated |-> t]

\* get_executive_summary.
get_executive_summary(b, t) ==
    LET fallback == Returns("fallback", SummaryFallback(t))
        tabelas == b.tabelas
        total_liquidity_raw == tabelas.total
    IN IF b.at = "absent" THEN fallback
       ELSE Handled(
              IF ~tabelas.present THEN Raises       \* read_excel raises
              ELSE IF tabelas.nrows <= 91 \/ tabelas.ncols <= 2
                 THEN Raises                        \* iloc[91, 2] raises
              ELSE IF notna(total_liquidity_raw)
                      /\ float_raises(total_liquidity_raw) THEN Raises
              ELSE IF ~b.lista.present THEN Raises  \* read_excel raises
              ELSE Returns("real",
                     [total_liquidity |->
                          IF notna(total_liquidity_raw)
                             THEN float(total_liquidity_raw) \div 100000
                             ELSE 326,
                      bank_accounts |-> b.lista.accounts,
                      active_banks |-> 13,
                      last_updated |-> t]),
              fallback)

\* Balances are kept in thousandths of a million.  The Percentage and Yield
\* columns are computed from the Balance column in the same way for the
\* fallback frame and for a frame read from the sheet, and are left out.
Bank(name, balance) ==
    [Bank |-> name, Balance |-> balance, Currency |-> "EUR"]

banks_data ==
    << Bank("UME BANK", 5668), Bank("Commerzbank", 3561),
       Bank("FKP Bank", 3550), Bank("FNB (SA)", 3340),
       Bank("Handelsbanken", 1650), Bank("Swedbank", 1450),
       Bank("HSBC", 1513), Bank("ING Bank", 1347),
       Bank("Jyske Bank", 760), Bank("BPC BANK", 738),
       Bank("SEB", 200), Bank("UBS", 720), Bank("LBCB", 570) >>

\* sort_values('Balance', ascending=False); the modelled frames hold no two
\* equal balances.
RECURSIVE SortByBalance(_)
SortByBalance(q) ==
    IF q = <<>> THEN <<>>
    ELSE LET top == CHOOSE i \in DOMAIN q :
                       \A j \in DOMAIN q : q[j].Balance <= q[i].Balance
         IN <<q[top]>>
            \o SortByBalance([k \in 1..(Len(q) - 1) |->
                                 IF k < top THEN q[k] ELSE q[k + 1]])

get_fallback_banks == SortByBalance(banks_data)

\* The rows 78..90 of 'Tabelas' that give a bank, from the k-th on: the row
\* exists, name and balance are present, the stripped name is not empty and
\* float() accepts the balance.  Any other row is passed over.
RECURSIVE BankRows(_, _)
BankRows(tabelas, k) ==
    IF k > Len(tabelas.banks) THEN <<>>
    ELSE LET bank_name == tabelas.banks[k][1]
             balance == tabelas.banks[k][2]
             usable == /\ 77 + k < tabelas.nrows
                       /\ tabelas.ncols > 2
                       /\ notna(bank_name) /\ notna(balance)
                       /\ strip(str(bank_name)) # ""
                       /\ ~float_raises(balance)
         IN (IF usable
                THEN <<Bank(strip(str(bank_name)), float(balance) \div 1000)>>
                ELSE <<>>)
            \o BankRows(tabelas, k + 1)

\* get_bank_positions_from_tabelas.
get_bank_positions_from_tabelas(b) ==
    LET fallback == Returns("fallback", get_fallback_banks)
    IN IF b.at = "absent" THEN fallback
       ELSE Handled(
              IF ~b.tabelas.present THEN Raises     \* read_excel raises
              ELSE IF BankRows(b.tabelas, 1) # <<>>
                 THEN Returns("real", SortByBalance(BankRows(b.tabelas, 1)))
                 ELSE fallback,
              fallback)

\* The sheets the accessors are run against.
Blank == Column(NaN, NaN, NaN, NaN, NaN)

\* The layout of the real sheet: a date in row 0, two columns to its right
\* the "Valor EUR" header in row 1 and the balance in row 98.
Triple(date, header, value, r100, r101) ==
    << Column(date, NaN, NaN, NaN, NaN), Blank,
       Column(NaN, header, value, r100, r101) >>

ColsFull ==
    Triple(Str("05-Aug-25"), Str("Valor EUR"), Num(28500000), Num(1200), Num(5))
    \o Triple(Num(45889), Str("valor (eur)"), Str("2500000"), Str("n/a"), NaN)
    \o Triple(Str("2025-09-10"), Str("Valor EUR"), Num(31000000),
              Num(-300), Str("x"))
    \o Triple(Num(45880), Str("Valor EUR"), Num(30000000), Num(0), NaN)
    \o Triple(Str("01/07/2025"), Str("Valor USD"), Num(9900000), NaN, NaN)

ColsOdd ==
    Triple(Str("soon"), Str("Valor EUR"), Num(5000000), NaN, NaN)
    \o Triple(Date(45881), Str("Valor EUR"), Str("n/a"), Str("n/a"), NaN)
    \o Triple(Date(45880), Str("Valor EUR"), Str("0"), Num(0), NaN)
    \o Triple(NaN, Str("Valor EUR"), Num(7000000), NaN, NaN)
    \o Triple(Date(45875), Str("Saldo Eur"), Num(1000000), NaN, NaN)
    \o Triple(Date(45876), Str("Valor EUR"), Num(0), Date(45876), NaN)
    \o Triple(Date(45877), Str("Valor EUR"), NaN, NaN, NaN)
    \o Triple(Str("13-Aug-25"), Str("Valor EUR"), Num(32600000), NaN, NaN)

\* Headers in the first two columns, which have no date column to their
\* left, and a date more than 30 days before the latest one.
ColsHead ==
    << Column(Str("01/07/2025"), Str("Valor EUR"), Num(1000000), Num(70), Num(250)),
       Column(NaN, Str("Valor EUR"), Num(2000000), NaN, NaN),
       Column(Str("05-Aug-25"), Str("Valor EUR"), Num(3000000), NaN, NaN),
       Blank,
       Column(NaN, Str("Valor EUR"), Num(4000000), Str("0"), NaN) >>

TabelasRows ==
    << <<Str(" Bank B "), Num(2500000)>>,
       <<Str("Bank A"), Num(4000000)>>,
       <<NaN, Num(1000000)>>,
       <<Str("   "), Num(3000000)>>,
       <<Str("Bank C  "), Str("n/a")>>,
       <<Str("Bank E"), Str("2500000")>>,
       <<Str("Bank F"), NaN>> >>

\* A 'Tabelas' that holds the banks of the fallback frame.
TabelasLikeFallback ==
    [k \in DOMAIN banks_data |->
        <<Str(banks_data[k].Bank), Num(banks_data[k].Balance * 1000)>>]

Books ==
    { BookOf("absent", NoLista, NoTabelas),
      BookOf("cwd", ListaOf(103, 40, ColsFull),
                    TabelasOf(95, 3, TabelasRows, Num(41200000))),
      BookOf("data", ListaOf(103, 96, ColsOdd),
                     TabelasOf(92, 3, TabelasLikeFallback, Num(32600000))),
      BookOf("cwd", ListaOf(102, 0, ColsHead),
                    TabelasOf(50, 3, <<>>, NaN)),
      BookOf("cwd", NoLista, TabelasOf(95, 3, TabelasRows, Num(41200000))),
      BookOf("data", ListaOf(99, 12, ColsFull), NoTabelas),
      BookOf("cwd", ListaOf(101, 12, ColsFull),
                    TabelasOf(95, 2, TabelasRows, NaN)),
      BookOf("cwd", ListaOf(1, 0, ColsFull),
                    TabelasOf(95, 3, <<>>, Str("n/a"))),
      BookOf("data", ListaOf(98, 12, ColsFull),
                     TabelasOf(82, 3, TabelasRows, NaN)),
      BookOf("cwd", ListaOf(103, 40, ColsOdd),
                    TabelasOf(95, 3, TabelasRows, NaN)) }


\* The body of accessor a run against book b at time t.
Underlying(a, b, t) ==
    CASE a = "get_daily_cash_flow" -> get_daily_cash_flow(b)
      [] a = "get_executive_summary" -> get_executive_summary(b, t)
      [] a = "get_latest_variation" -> get_latest_variation(b)
      [] a = "get_dynamic_liquidity_data" -> get_dynamic_liquidity_data(b)
      [] OTHER -> get_bank_positions_from_tabelas(b)


ResultOf(a, b, res, ran) ==
    [accessor |-> a, book |-> b, res |-> res, ran |-> ran,
     scan |-> IF ran /\ a = "get_dynamic_liquidity_data" /\ b.at # "absent"
                     /\ b.lista.present
              THEN [i \in DOMAIN b.lista.cols |-> LiquiditySample(b.lista, i)]
              ELSE <<>>]

\* The user replaces, moves or removes the dashboard's workbook.
EditBook(books) ==
    /\ \E b \in books \ {book} : book' = b
    /\ edited' = now
    /\ UNCHANGED <<result, prior, now, cache, calls, cleared>>
    /\ UNCHANGED <<environment, tables, scheduler, pc, activations, seeding,
                   locking, session_fx_deals>>

\* The body of an accessor runs.
Read(a) ==
    /\ result' = ResultOf(a, book, Underlying(a, book, now), TRUE)
    /\ prior' = result
    /\ UNCHANGED <<book, now, cache, calls, cleared, edited>>
    /\ UNCHANGED <<environment, tables, scheduler, pc, activations, seeding,
                   locking, session_fx_deals>>

(***************************************************************************)
(* @st.cache_data(ttl=300) around each accessor: Streamlit memoises the    *)
(* returned value under the function (the accessors take no argument) and  *)
(* drops the entry 300 seconds after it was stored; st.cache_data.clear()  *)
(* drops the entries of every function.                                    *)
(***************************************************************************)
TTL == 300


\* A memo whose entries live twice as long.
Expiry_TwiceTTL(entry) == entry.at + 2 * TTL

\* ttl=300: the second at which an entry stops being served.
Expiry(entry) == entry.at + TTL

\* A memo whose entries never expire.
Fresh_Forever(entry, t) == entry.present

\* The entry answers a call made at time t.
Fresh(entry, t) == entry.present /\ t < Expiry(entry)

\* A call of accessor a from a page of the dashboard.
CachedCall(a) ==
    /\ calls < MaxCalls
    /\ calls' = calls + 1
    /\ prior' = result
    /\ IF Fresh(cache[a], now)
          THEN /\ result' = ResultOf(a, book, cache[a].res, FALSE)
               /\ cache' = cache
          ELSE LET res == Underlying(a, book, now)
               IN /\ result' = ResultOf(a, book, res, TRUE)
                  /\ cache' = [cache EXCEPT
                                  ![a] = [present |-> TRUE, res |-> res,
                                          at |-> now]]
    /\ UNCHANGED <<book, now, cleared, edited>>
    /\ UNCHANGED <<environment, tables, scheduler, pc, activations, seeding,
                   locking, session_fx_deals>>

\* The "Refresh" button of show_fx_risk: st.cache_data.clear().
Refresh ==
    /\ cache' = [a \in Accessors |-> NoEntry]
    /\ cleared' = calls
    /\ UNCHANGED <<book, result, prior, now, calls, edited>>
    /\ UNCHANGED <<environment, tables, scheduler, pc, activations, seeding,
                   locking, session_fx_deals>>

\* Time passes between two reruns of the page.
Waits == {150, 300}

Wait ==
    /\ \E d \in Waits : now + d <= MaxNow /\ now' = now + d
    /\ UNCHANGED <<book, result, prior, cache, calls, cleared, edited>>
    /\ UNCHANGED <<environment, tables, scheduler, pc, activations, seeding,
                   locking, session_fx_deals>>

(***************************************************************************)
(* The sub-syncs step by step, for passes that run at the same time in the *)
(* thread of the scheduler and in the main thread.  Each sub-sync opens    *)
(* its own connection, sqlite3.connect(path, timeout=DB_TIMEOUT); the      *)
(* module opens a transaction before the first DELETE or INSERT, which     *)
(* takes the write lock of the database file, and conn.commit() gives it   *)
(* back.  A statement that finds the lock taken waits for it and raises    *)
(* "database is locked" after the timeout.  A sub-sync that raises after   *)
(* its DELETE neither commits nor closes: the transaction is rolled back   *)
(* and the lock given back when the connection object is finalised.        *)
(***************************************************************************)
DayScoped == {"positions", "forecast"}

\* A connection that writes without taking the lock.
LockFree_Always(lock) == TRUE

\* A write statement of a new transaction can go ahead.
LockFree(lock) == ~lock.held

\* The records the sub-sync inserts, one INSERT each.
TxRecords(e, name) ==
    IF name = "positions" THEN PositionRecords(call[e].sheet7)
    ELSE ForecastRecords(call[e].dash_sheet)

\* The extraction between the DELETE and the INSERTs raises.
MapperRaises(e, name) == name = "positions" /\ ~call[e].sheet7.wide

NextSubSync(name) == IF name = "positions" THEN "forecast" ELSE "metrics"

\* conn.execute("DELETE FROM <table> WHERE DATE(last_updated) = ?")
ExecDelete(e, name) ==
    /\ pc[e] = name
    /\ ~tx[e].open
    /\ LockFree(db_lock)
    /\ tx' = [tx EXCEPT ![e] = [open |-> TRUE, table |-> name, n |-> 0]]
    /\ db_lock' = [held |-> TRUE, by |-> e, live |-> TRUE]
    /\ UNCHANGED <<seeding, dashboard, environment, tables, scheduler, pc,
                   activations>>

\* The DELETE waited DB_TIMEOUT seconds for the lock and raised; the except
\* clause of the sub-sync returns 0.
Busy(e, name) ==
    /\ pc[e] = name
    /\ ~tx[e].open
    /\ ~LockFree(db_lock)
    /\ AfterSubSync(e, name, 0, TRUE, FALSE, NextSubSync(name))
    /\ UNCHANGED <<seeding, dashboard, locking, environment, tables,
                   scheduler, last, passes>>

\* conn.execute("INSERT INTO <table> ...") for the next record.
ExecInsert(e, name) ==
    /\ tx[e].open
    /\ tx[e].table = name
    /\ ~MapperRaises(e, name)
    /\ tx[e].n < Len(TxRecords(e, name))
    /\ tx' = [tx EXCEPT ![e].n = @ + 1]
    /\ UNCHANGED <<seeding, dashboard, db_lock, environment, tables,
                   scheduler, pc, activations>>

\* The extraction raised: the sub-sync returns 0 and leaves its connection
\* behind with the transaction open.
Abandon(e, name) ==
    /\ tx[e].open
    /\ tx[e].table = name
    /\ MapperRaises(e, name)
    /\ tx' = [tx EXCEPT ![e] = NoTx]
    /\ db_lock' = IF db_lock.by = e THEN [db_lock EXCEPT !.live = FALSE]
                  ELSE db_lock
    /\ AfterSubSync(e, name, 0, FALSE, FALSE, NextSubSync(name))
    /\ UNCHANGED <<seeding, dashboard, environment, tables, scheduler, last,
                   passes>>

\* conn.commit(); conn.close(); return len(...)
Commit(e, name) ==
    /\ tx[e].open
    /\ tx[e].table = name
    /\ ~MapperRaises(e, name)
    /\ tx[e].n = Len(TxRecords(e, name))
    /\ IF name = "positions"
          THEN /\ cash_positions' =
                     DeleteToday(cash_positions, LocalDate(clock, tz))
                     \cup Stamp(TxRecords(e, name), call[e].id)
               /\ UNCHANGED cash_flow_forecast
          ELSE /\ cash_flow_forecast' =
                     DeleteToday(cash_flow_forecast, LocalDate(clock, tz))
                     \cup Stamp(TxRecords(e, name), call[e].id)
               /\ UNCHANGED cash_positions
    /\ tx' = [tx EXCEPT ![e] = NoTx]
    /\ db_lock' = IF db_lock.by = e THEN FreeLock ELSE db_lock
    /\ AfterSubSync(e, name, Len(TxRecords(e, name)), FALSE, TRUE,
                    NextSubSync(name))
    /\ UNCHANGED <<seeding, dashboard, environment, key_metrics, sync_log,
                   scheduler, last, passes>>

\* The interpreter finalises a connection that was left behind: its
\* transaction is rolled back and the lock is free again.
Finalize ==
    /\ db_lock.held
    /\ ~db_lock.live
    /\ db_lock' = FreeLock
    /\ UNCHANGED <<seeding, dashboard, tx, environment, tables, scheduler,
                   pc, activations>>

\* What a single-statement write meets: the lock free, or the timeout.
LockOutcome == IF LockFree(db_lock) THEN {FALSE} ELSE {TRUE}

(***************************************************************************)
(* Specifications.  Faults is what the store can do on a write: succeed or *)
(* raise.                                                                  *)
(***************************************************************************)
Faults == BOOLEAN
NoFault == {FALSE}

\* The sync engine run by main(): manual passes against any workbook, any
\* store write failing, within one date.
Next ==
    \/ InitDatabase
    \/ GetSyncStatus
    \/ EditWorkbook(Workbooks)
    \/ ManualSync
    \/ sync_cash_positions("main", Faults)
    \/ sync_cash_flow_forecast("main", Faults)
    \/ sync_key_metrics("main", Faults, RandomDraws)
    \/ log_sync_status("main", Faults)

InitUTC == Init /\ tz = 0

Spec == InitUTC /\ [][Next]_vars

\* The scheduler: main() runs its manual pass and then start_scheduler runs
\* in its thread while another thread may call stop_scheduler; the store
\* may fail when the log row is written.
\* main() runs its manual pass before it starts the scheduler.
ManualSyncFirst == pc["sched"] = "idle" /\ ManualSync

SchedWorkbooks == { w \in Workbooks : w.dash.present \/ ~w.exists }

NextSched ==
    \/ InitDatabase
    \/ GetSyncStatus
    \/ EditWorkbook(SchedWorkbooks)
    \/ ManualSyncFirst
    \/ StartScheduler
    \/ RegisterJobs
    \/ StartupSync
    \/ SetRunning
    \/ LoopCheck
    \/ RunJob
    \/ Sleep
    \/ StopScheduler
    \/ \E e \in Executors : sync_cash_positions(e, NoFault)
    \/ \E e \in Executors : sync_cash_flow_forecast(e, NoFault)
    \/ \E e \in Executors : sync_key_metrics(e, NoFault, {0})
    \/ \E e \in Executors : log_sync_status(e, Faults)

InitSched == InitUTC /\ workbook \in SchedWorkbooks

SpecSched == InitSched /\ [][NextSched]_vars

\* Passes over several days, on a machine whose local clock may be offset
\* from UTC.
DayWorkbooks == { w \in Workbooks : w.exists /\ w.dash.present
                                      /\ w.sheet7.present }

NextDays ==
    \/ InitDatabase
    \/ Tick
    \/ EditWorkbook(DayWorkbooks)
    \/ ManualSync
    \/ sync_cash_positions("main", Faults)
    \/ sync_cash_flow_forecast("main", Faults)
    \/ sync_key_metrics("main", Faults, RandomDraws)
    \/ log_sync_status("main", NoFault)

InitDays == Init /\ workbook \in DayWorkbooks

SpecDays == InitDays /\ [][NextDays]_vars


\* Seeding: create_sample_data run any number of times, between passes of
\* the sync engine, with any store write failing.
NextSeed ==
    \/ InitDatabase
    \/ Tick
    \/ create_sample_data(Faults)
    \/ ManualSync
    \/ sync_cash_positions("main", NoFault)
    \/ sync_cash_flow_forecast("main", NoFault)
    \/ sync_key_metrics("main", NoFault, {0})
    \/ log_sync_status("main", NoFault)

InitSeed == InitUTC /\ workbook = WorkbookOf(TRUE, Da, S7a)

SpecSeed == InitSeed /\ [][NextSeed]_vars


\* The mappers: one pass after another against workbooks whose regions hold
\* every kind of cell, with no store error.
MapperWorkbooks ==
    { WorkbookOf(TRUE, Da, S7a),
      WorkbookOf(TRUE, Db, S7b),
      WorkbookOf(TRUE, Da, S7e),
      WorkbookOf(TRUE, Db, S7empty),
      WorkbookOf(TRUE, Dshort, S7narrow),
      WorkbookOf(TRUE, Dlow, S7a) }

NextMappers ==
    \/ InitDatabase
    \/ EditWorkbook(MapperWorkbooks)
    \/ ManualSync
    \/ sync_cash_positions("main", NoFault)
    \/ sync_cash_flow_forecast("main", NoFault)
    \/ sync_key_metrics("main", NoFault, RandomDraws)
    \/ log_sync_status("main", NoFault)

InitMappers == InitUTC /\ workbook \in MapperWorkbooks

SpecMappers == InitMappers /\ [][NextMappers]_vars


\* The read accessors: the body of each accessor run against every kind of
\* workbook.
NextReads ==
    \/ EditBook(Books)
    \/ \E a \in Accessors : Read(a)

InitReads == InitUTC /\ ~workbook.exists

SpecReads == InitReads /\ [][NextReads]_vars

\* The memo: accessors called from the pages while time passes, the
\* workbook changes and the user refreshes.
CacheBooks ==
    { b \in Books : b.at = "absent" \/ (b.at = "cwd" /\ b.lista.nrows = 103) }

\* The accessors the pages call in the behaviours explored.
CalledAccessors ==
    {"get_daily_cash_flow", "get_dynamic_liquidity_data",
     "get_bank_positions_from_tabelas"}

NextCache ==
    \/ EditBook(CacheBooks)
    \/ Wait
    \/ Refresh
    \/ \E a \in CalledAccessors : CachedCall(a)

SpecCache == InitReads /\ [][NextCache]_vars


(***************************************************************************)
(* The FX deal requests of show_fx_risk.  The list lives in the session    *)
(* state of the page and starts empty; the form appends a request, and the *)
(* Approve and Reject buttons of a pending request act on the requests     *)
(* that carry its id.                                                      *)
(***************************************************************************)
FormCurrencies == {"EUR", "USD"}

\* new_deal: the fields the page acts on.
NewDeal(deals, sell, buy) ==
    [id |-> Len(deals) + 1, sell_currency |-> sell, buy_currency |-> buy,
     status |-> "Pending"]

\* if d['id'] == deal['id']: d['status'] = 'Approved'
ApproveById(deals, id) ==
    [i \in DOMAIN deals |->
        IF deals[i].id = id THEN [deals[i] EXCEPT !.status = "Approved"]
        ELSE deals[i]]

\* if d['id'] != deal['id']: the requests a rejection keeps.
KeptOnReject(d, id) == d.id # id

\* [d for d in st.session_state.fx_deals if d['id'] != deal['id']]
RejectById(deals, id) ==
    LET Keep(d) == KeptOnReject(d, id) IN SelectSeq(deals, Keep)

\* The form is submitted; equal currencies are refused with a message.
SubmitDeal ==
    /\ Len(session_fx_deals) < MaxDeals
    /\ \E sell, buy \in FormCurrencies :
          session_fx_deals' =
             IF sell # buy
                THEN Append(session_fx_deals,
                            NewDeal(session_fx_deals, sell, buy))
                ELSE session_fx_deals
    /\ UNCHANGED <<book, result, prior, now, cache, calls, cleared, edited>>
    /\ UNCHANGED <<environment, tables, scheduler, pc, activations, seeding,
                   locking>>

\* The Approve button of the i-th request, shown while it is pending.
ApproveDeal ==
    /\ \E i \in DOMAIN session_fx_deals :
          /\ session_fx_deals[i].status = "Pending"
          /\ session_fx_deals' =
                ApproveById(session_fx_deals, session_fx_deals[i].id)
    /\ UNCHANGED <<book, result, prior, now, cache, calls, cleared, edited>>
    /\ UNCHANGED <<environment, tables, scheduler, pc, activations, seeding,
                   locking>>

\* The Reject button of the i-th request, shown while it is pending.
RejectDeal ==
    /\ \E i \in DOMAIN session_fx_deals :
          /\ session_fx_deals[i].status = "Pending"
          /\ session_fx_deals' =
                RejectById(session_fx_deals, session_fx_deals[i].id)
    /\ UNCHANGED <<book, result, prior, now, cache, calls, cleared, edited>>
    /\ UNCHANGED <<environment, tables, scheduler, pc, activations, seeding,
                   locking>>

NextSession ==
    \/ SubmitDeal
    \/ ApproveDeal
    \/ RejectDeal

SpecSession == InitReads /\ [][NextSession]_vars


\* Concurrent passes: the scheduler's thread runs its startup pass while
\* main() runs manual passes, all against one database file.
ConcWorkbooks ==
    { WorkbookOf(TRUE, Db, S7b), WorkbookOf(TRUE, Dshort, S7narrow) }

NextConc ==
    \/ InitDatabase
    \/ EditWorkbook(ConcWorkbooks)
    \/ ManualSync
    \/ StartScheduler
    \/ RegisterJobs
    \/ StartupSync
    \/ \E e \in Executors, name \in DayScoped : ExecDelete(e, name)
    \/ \E e \in Executors, name \in DayScoped : Busy(e, name)
    \/ \E e \in Executors, name \in DayScoped : ExecInsert(e, name)
    \/ \E e \in Executors, name \in DayScoped : Abandon(e, name)
    \/ \E e \in Executors, name \in DayScoped : Commit(e, name)
    \/ Finalize
    \/ \E e \in Executors : sync_key_metrics(e, LockOutcome, {0})
    \/ \E e \in Executors : log_sync_status(e, LockOutcome)

InitConc == InitUTC /\ workbook \in ConcWorkbooks

SpecConc == InitConc /\ [][NextConc]_vars


(***************************************************************************)
(* Properties.                                                             *)
(***************************************************************************)
\* The sync_log rows invocation id appended.
RowsOf(id) == { i \in DOMAIN sync_log : sync_log[i].pass = id }

\* The invocations that have returned.
Returned == { id \in 1..passes : \A e \in Executors : call[e].id # id }

\* The tag each kind of trigger is specified to pass.
TriggerTag(trigger) ==
    CASE trigger = "manual" -> "MANUAL"
      [] trigger = "startup" -> "STARTUP"
      [] trigger = IntervalJob -> "AUTO"
      [] OTHER -> "SCHEDULED"

\* The activation thread e finished last: absent workbook, unreadable sheet.
Absent(c) == c.id # 0 /\ ~c.book.exists
Unreadable(c) ==
    c.id # 0 /\ c.book.exists
             /\ (~c.book.dash.present \/ ~c.book.sheet7.present)
SheetsRead(c) ==
    c.id # 0 /\ c.book.exists /\ c.book.dash.present /\ c.book.sheet7.present

\* Thread e takes a step of an activation that satisfies P.
StepOfPass(e, P(_)) ==
    /\ call'[e] # call[e]
    /\ (P(call[e]) \/ P(call'[e]))

DataTablesUnchanged ==
    UNCHANGED <<cash_positions, cash_flow_forecast, key_metrics>>

C2_ErrorRows(c) ==
    \A i \in RowsOf(c.id) :
        sync_log[i].status = "ERROR" /\ sync_log[i].records_processed = 0

C2_Untouched ==
    [][\A e \in Executors : StepOfPass(e, Absent) => DataTablesUnchanged]_vars

SubSyncIndex(name) ==
    CASE name = "positions" -> 1 [] name = "forecast" -> 2 [] OTHER -> 3

C7_ErrorRows(c) ==
    \A i \in RowsOf(c.id) :
        /\ sync_log[i].status = "ERROR"
        /\ \E k \in DOMAIN sync_log[i].error_message :
              sync_log[i].error_message[k] = ReadFailure(c.book)

C7_Untouched ==
    [][\A e \in Executors :
          StepOfPass(e, Unreadable) => DataTablesUnchanged]_vars

FailedTick ==
    /\ pc["sched"] = "log"
    /\ pc'["sched"] # "log"
    /\ call["sched"].trigger \in AllJobs
    /\ ~last'["sched"].ret

\* C8: the scheduler loop never ends because a triggered sync failed: the
\* step in which the pass of a job fails leaves is_running and the
\* registered jobs as they were and returns to run_pending, and
\* start_scheduler only ever returns after stop_scheduler was called.
C8_FailedSyncKeepsLoop ==
    /\ [](pc["sched"] = "exited" => stop_called)
    /\ [][FailedTick =>
            /\ is_running' = is_running
            /\ jobs' = jobs
            /\ pc'["sched"] = "run_pending"]_vars

\* The pass of a job has failed and the loop is back at its condition with
\* the flag set and every job registered.
C8_Witness ==
    /\ last["sched"].trigger \in AllJobs
    /\ ~last["sched"].ret
    /\ pc["sched"] = "loop"
    /\ is_running
    /\ jobs = AllJobs

\* C9 as stated: once stop_scheduler was called while start_scheduler was
\* executing, no job is registered and the running flag is false.
C9_StopIsFinal == stop_called => (jobs = {} /\ ~is_running)

\* The local date of a row.
RowDay(r) == LocalDate(r.last_updated, tz)

\* No newer pass of thread e has written table name yet.
NoNewerWrite(e, name) ==
    call[e].id = 0 \/ \A w \in call[e].wrote : w[1] # name

\* C3 as stated: the cash_positions rows of one calendar day come from one
\* single pass, the most recent one that wrote positions on that day.
C3_OnePassPerDay ==
    /\ \A r1, r2 \in cash_positions :
          RowDay(r1) = RowDay(r2) => r1.pass = r2.pass
    /\ \A e \in Executors :
          NoNewerWrite(e, "positions") =>
             \A w \in last[e].wrote :
                w[1] = "positions" =>
                   \A r \in cash_positions :
                      RowDay(r) = w[2] => r.pass = last[e].id

\* Thread e is about to log a pass that ran, on the same local date and
\* against the same sheets, after a pass whose sub-syncs all committed, and
\* its own sub-syncs all committed.
SecondRunSameDay(e) ==
    /\ pc[e] = "log"
    /\ last[e].id # 0
    /\ ~call[e].error
    /\ ~last[e].error
    /\ call[e].book = last[e].book
    /\ last[e].day = LocalDate(clock, tz)
    /\ Cardinality(call[e].wrote) = 3
    /\ Cardinality(last[e].wrote) = 3

\* C10 as stated: the second of two passes run on the same day against an
\* unchanged workbook leaves the three tables with the domain rows the
\* first pass left.
C10_SecondRunSameRows ==
    \A e \in Executors : SecondRunSameDay(e) => DomainTables = last[e].after


\* C4: sync_log is append-only: in every step of every operation (the pass
\* and its sub-syncs, scheduler start and stop, the status query, database
\* initialisation) the earlier contents of sync_log are a prefix of the
\* later contents.
C4_SyncLogAppendOnly == [][IsPrefix(sync_log, sync_log')]_vars

\* Two passes of the same sync_type have logged, the scheduler was stopped
\* and main() has run again after them.
C4_Witness ==
    /\ Len(sync_log) = 2
    /\ sync_log[1].sync_type = sync_log[2].sync_type
    /\ stop_called
    /\ pc["main"] = "boot"

\* Thread e's key-metric sub-sync commits in this step.
MetricsCommit(e) ==
    /\ pc[e] = "metrics"
    /\ \E w \in call'[e].wrote : w[1] = "metrics"

MetricNames == {"total_balance", "liquid_assets", "investment_grade"}

\* C11: key_metrics never holds two rows of one metric_name, and a
\* key-metric sub-sync that commits leaves exactly three rows, one each for
\* total_balance, liquid_assets and investment_grade, all written by that
\* pass with the values it computed from its Sheet7.
C11_OneRowPerMetric ==
    /\ [](\A r1, r2 \in key_metrics :
            r1.data.metric_name = r2.data.metric_name => r1 = r2)
    /\ [][\A e \in Executors :
            MetricsCommit(e) =>
               /\ Cardinality(key_metrics') = 3
               /\ { r.data.metric_name : r \in key_metrics' } = MetricNames
               /\ \A r \in key_metrics' :
                     /\ r.pass = call[e].id
                     /\ \E i \in 1..3, d \in RandomDraws :
                           r.data = MetricRecords(call[e].sheet7, d)[i]]_vars

\* A first pass committed all three sub-syncs, and the key-metric rows now
\* are those of the second pass, which ran where the local date is ahead
\* of the UTC date its day-scoped delete is compared with.
C11_Witness ==
    /\ Len(sync_log) = 1
    /\ sync_log[1].records_processed = 6
    /\ call["main"].id = 2
    /\ \E w \in call["main"].wrote : w[1] = "metrics"
    /\ Cardinality(key_metrics) = 3
    /\ \A r \in key_metrics : r.pass = 2
    /\ tz = 1
    /\ clock = 1

\* C12: an INSERT of a deal whose deal_id is already in fx_deals fails, so
\* fx_deals never holds two rows of one deal_id; a create_sample_data run
\* against a table that holds a sample deal_id changes neither fx_deals nor
\* cash_positions.
C12_DealIdUnique ==
    /\ [](\A i, j \in DOMAIN fx_deals :
            fx_deals[i].deal_id = fx_deals[j].deal_id => i = j)
    /\ [][(seedings' # seedings /\ fx_deals # <<>>) =>
             /\ fx_deals' = fx_deals
             /\ cash_positions' = cash_positions]_vars

\* The sample deals were seeded by the first run and create_sample_data has
\* run a second time.
C12_Witness ==
    /\ seedings = 2
    /\ Len(fx_deals) = 3
    /\ \E r \in cash_positions : r.pass = -1

\* The texts pd.to_numeric parses as a number, and the cells it coerces.
NumericTexts == {"250"}
Coercible(c) == c.t = "num" \/ (c.t = "str" /\ c.s \in NumericTexts)

\* The texts that carry surrounding whitespace.
Padded == {" Bank B ", "Bank C  "}

\* A Sheet7 row the position mapper is to keep.
GoodRow(r) == r[1].t # "nan" /\ r[2].t # "nan" /\ Coercible(r[2])

\* The current pass of main() has committed sub-sync name.
Committed(name) == \E w \in call["main"].wrote : w[1] = name

\* The rows of the current pass of main() in a table.
RowsOfPass(table) == { r \in table : r.pass = call["main"].id }

\* C16: the position mapper writes one record per row of the region whose
\* bank name and amount are present and whose amount coerces to a number,
\* with the name stripped, currency EUR and a numeric amount, and drops
\* every other row without failing; the rows ("Bank A", 1500000),
\* (None, None), ("Bank B", "not-a-number") give the one record Bank A,
\* 1500000.
C16_PositionMapper ==
    (Committed("positions") /\ call["main"].sheet7.wide) =>
       LET rows == call["main"].sheet7.rows
           written == RowsOfPass(cash_positions)
       IN /\ Cardinality(written) =
                Cardinality({ i \in DOMAIN rows : GoodRow(rows[i]) })
          /\ call["main"].counts[1] = Cardinality(written)
          /\ "positions" \notin call["main"].raised
          /\ \A r \in written :
                /\ r.data.currency = "EUR"
                /\ r.data.bank_name \notin Padded
                /\ r.data.amount \in Int
                /\ \E i \in DOMAIN rows :
                      /\ GoodRow(rows[i])
                      /\ r.data.amount =
                            (IF rows[i][2].t = "num" THEN rows[i][2].n ELSE 250)
          /\ call["main"].sheet7 = S7a =>
                { r.data : r \in written } =
                   { [bank_name |-> "Bank A", currency |-> "EUR",
                      amount |-> 1500000] }

\* The pass against the Sheet7 with padded names and a numeric text has
\* written both rows, and a pass against the rows of the example has written
\* its one row.
C16_Witness ==
    /\ Committed("positions")
    /\ call["main"].sheet7 = S7a
    /\ Cardinality(RowsOfPass(cash_positions)) = 1
    /\ last["main"].sheet7 = S7b
    /\ last["main"].counts[1] = 2

\* The sum of the amounts of the region that coerce to a number.
RECURSIVE ExpectedTotal(_)
ExpectedTotal(rows) ==
    IF rows = <<>> THEN 0
    ELSE (IF Coercible(Head(rows)[2])
             THEN (IF Head(rows)[2].t = "num" THEN Head(rows)[2].n ELSE 250)
             ELSE 0) + ExpectedTotal(Tail(rows))

\* The value (in tenths) of the key_metrics row of a metric.
MetricValue(name) ==
    (CHOOSE r \in key_metrics : r.data.metric_name = name).data.metric_value

\* C19: the key-metric mapper writes total_balance = the sum of the
\* coercible amounts of the region (0 when none coerces or the region cannot
\* be read), liquid_assets = total_balance x 0.8 and investment_grade =
\* total_balance x 0.2; a total_balance of 100.0 gives 80.0 and 20.0.
C19_KeyMetricValues ==
    Committed("metrics") =>
       LET sheet7 == call["main"].sheet7
           total == IF sheet7.wide THEN ExpectedTotal(sheet7.rows) ELSE 0
       IN /\ MetricValue("total_balance") = total * 10
          /\ MetricValue("liquid_assets") * 10 =
                MetricValue("total_balance") * 8
          /\ MetricValue("investment_grade") * 10 =
                MetricValue("total_balance") * 2
          /\ MetricValue("total_balance") = 1000 =>
                /\ MetricValue("liquid_assets") = 800
                /\ MetricValue("investment_grade") = 200

\* A pass against the Sheet7 that sums to 100 has written 100.0, 80.0 and
\* 20.0, after a pass against the Sheet7 without the amount column wrote 0.
C19_Witness ==
    /\ Committed("metrics")
    /\ call["main"].sheet7 = S7e
    /\ MetricValue("total_balance") = 1000
    /\ MetricValue("liquid_assets") = 800
    /\ last["main"].sheet7 = S7narrow
    /\ last["main"].counts = <<0, 0, 3>>

\* C13: every result of a fallback path carries a provenance tag that
\* differs from the tag of a result extracted from the real workbook, so a
\* caller that holds a fallback result and a real result of the same
\* accessor can tell them apart.  Only the liquidity series has a tag
\* ('source'); for the other accessors everything returned is compared.
Provenance(a, out) ==
    IF a = "get_dynamic_liquidity_data" THEN out.source.tag ELSE out

C13_FallbackDistinguishable ==
    (/\ result.ran /\ prior.ran
     /\ result.accessor = prior.accessor
     /\ result.res.path = "fallback"
     /\ prior.res.path = "real")
    => Provenance(result.accessor, result.res.out)
           # Provenance(prior.accessor, prior.res.out)

\* The fields a page of the dashboard reads from a result of accessor a.
Shape(a, out) ==
    CASE a = "get_daily_cash_flow" ->
              /\ DOMAIN out = {"cash_flow", "cash_flow_text", "percentage",
                               "percentage_text", "percentage_color"}
              /\ out.percentage_color \in {"positive", "negative"}
      [] a = "get_executive_summary" ->
              DOMAIN out = {"total_liquidity", "bank_accounts",
                            "active_banks", "last_updated"}
      [] a = "get_latest_variation" ->
              /\ DOMAIN out = {"variation", "text", "color"}
              /\ out.color \in {"positive", "negative"}
      [] a = "get_dynamic_liquidity_data" ->
              /\ {"dates", "values", "source"} \subseteq DOMAIN out
              /\ Len(out.dates) = Len(out.values)
              /\ Len(out.dates) > 0
      [] OTHER ->
              /\ Len(out) > 0
              /\ \A k \in DOMAIN out :
                     DOMAIN out[k] = {"Bank", "Balance", "Currency"}

\* C14: a read accessor never raises and returns a result of its normal
\* shape whatever the workbook is: absent, a sheet missing, a sheet shorter
\* or narrower than the cells addressed, cells empty or not numeric.
C14_ReadsNeverRaise ==
    result.ran =>
        /\ ~result.res.raised
        /\ result.res.path \in {"real", "fallback"}
        /\ Shape(result.accessor, result.res.out)

\* The read of a missing sheet raised and the accessor returned its
\* fallback.
C14_Witness ==
    /\ result.ran
    /\ result.accessor = "get_bank_positions_from_tabelas"
    /\ result.book.at # "absent"
    /\ ~result.book.tabelas.present
    /\ result.res = Returns("fallback", get_fallback_banks)

\* The number a value cell stands for, 0 when it stands for none.
Denotes(c) == IF notna(c) /\ ~float_raises(c) THEN float(c) ELSE 0

\* The conditions under which column i (col_index i - 1) gives a sample.
SampleConditions(sheet, i) ==
    /\ sheet.nrows > 1
    /\ notna(sheet.cols[i].r1)
    /\ contains(upper(str(sheet.cols[i].r1)), "VALOR")
    /\ contains(upper(str(sheet.cols[i].r1)), "EUR")
    /\ i - 1 >= 2
    /\ sheet.nrows > 98
    /\ notna(sheet.cols[i - 2].r0)
    /\ notna(sheet.cols[i].r98)
    /\ Denotes(sheet.cols[i].r98) # 0
    /\ ~date_raises(sheet.cols[i - 2].r0)

\* C17: the scan of get_dynamic_liquidity_data yields a sample for a column
\* if and only if its header holds "VALOR" and "EUR", it is at least the
\* third column, date and value cells are present, the value is non-zero
\* and the date is coercible; the sample is (coerced date, value /
\* 1,000,000), kept here in tenths of a million.
C17_SampleIffConditions ==
    (result.ran /\ result.accessor = "get_dynamic_liquidity_data")
    => \A i \in DOMAIN result.scan :
           LET sheet == result.book.lista
           IN /\ result.scan[i].ok <=> SampleConditions(sheet, i)
              /\ result.scan[i].ok =>
                    /\ result.scan[i].date = parsed_date(sheet.cols[i - 2].r0)
                    /\ result.scan[i].value
                           = Denotes(sheet.cols[i].r98) \div 100000

\* The accepted samples of the latest scan and the latest of their dates.
Accepted == { i \in DOMAIN result.scan : result.scan[i].ok }
MaxDate ==
    CHOOSE d \in { result.scan[i].date : i \in Accepted } :
        \A i \in Accepted : result.scan[i].date <= d
InWindow == { i \in Accepted : result.scan[i].date >= MaxDate - WindowDays }

CallOf(a) == calls' = calls + 1 /\ result'.accessor = a

\* C15: a call within the TTL of the entry, with no refresh since it was
\* stored, returns the memoised result without running the read; after a
\* refresh, which empties the entries of all accessors at once, or once
\* the TTL has elapsed, the call runs the read and its result becomes the
\* new entry.
C15_MemoStep ==
    \A a \in Accessors :
        CallOf(a) =>
            IF cache[a].present /\ now - cache[a].at < TTL
               THEN /\ ~result'.ran
                    /\ result'.res = cache[a].res
                    /\ cache' = cache
               ELSE /\ result'.ran
                    /\ result'.res = Underlying(a, book, now)
                    /\ cache'[a] = [present |-> TRUE, res |-> result'.res,
                                    at |-> now]
                    /\ \A o \in Accessors \ {a} : cache'[o] = cache[o]

C15_RefreshStep ==
    (\E a \in Accessors : cache[a].present /\ ~cache'[a].present)
    => \A a \in Accessors : ~cache'[a].present

C15_CachedReads ==
    /\ [](cleared = calls => \A a \in Accessors : ~cache[a].present)
    /\ [][C15_MemoStep /\ C15_RefreshStep]_vars

\* With no refresh in the behaviour: a call answered by the memo although
\* the workbook had changed since, then a call of the same accessor that
\* ran the read again because the entry had expired.
C15_Witness ==
    /\ cleared = -1
    /\ prior.accessor = result.accessor
    /\ ~prior.ran
    /\ prior.res # Underlying(prior.accessor, prior.book, 0)
    /\ result.ran
    /\ cache[result.accessor].at = now
    /\ now >= TTL

\* Pass p has run its DELETE on the table and has INSERTs left to run.
InSpan(p, name) ==
    /\ tx[p].open
    /\ tx[p].table = name
    /\ ~MapperRaises(p, name)
    /\ tx[p].n < Len(TxRecords(p, name))

\* The step runs a DELETE or an INSERT of pass q on the table.
Effects(q, name) ==
    /\ tx'[q].open
    /\ tx'[q].table = name
    /\ ~tx[q].open \/ tx'[q].n = tx[q].n + 1

\* C20: two passes that run at the same time never interleave their delete
\* and insert steps on one table: between the DELETE of one pass on a table
\* and its last INSERT there, no DELETE or INSERT of the other pass on that
\* table takes effect.
C20_NoInterleaving ==
    [][\A p, q \in Executors, name \in DayScoped :
          (p # q /\ InSpan(p, name)) => ~Effects(q, name)]_vars

\* One pass is between its DELETE and its last INSERT on cash_positions
\* while the other pass, of the same day, has met the lock on that table
\* and gone on to the next one.
C20_Witness ==
    \E p, q \in Executors :
        /\ p # q
        /\ InSpan(p, "positions")
        /\ tx[p].n >= 1
        /\ db_lock = [held |-> TRUE, by |-> p, live |-> TRUE]
        /\ pc[q] = "forecast"
        /\ "positions" \in call[q].raised
        /\ call[q].day = call[p].day

\* The number of sub-syncs that have returned when the pass is at a step.
ReturnedAt(step) ==
    CASE step = "positions" -> 0
      [] step = "forecast" -> 1
      [] step = "metrics" -> 2
      [] OTHER -> 3

\* The step ends with the store refusing the write of a sub-sync of e.
Refused(e) ==
    /\ call'[e].id = call[e].id
    /\ call'[e].raised # call[e].raised

\* The positions sub-sync of the pass of e went as far as its extraction,
\* which raised.
PositionsFailed(e) ==
    /\ Len(call[e].counts) >= 1
    /\ MapperRaises(e, "positions")
    /\ "positions" \notin call[e].raised

\* C21: in a pass whose sheets were read the sub-syncs run in the order
\* positions, forecast, key metrics, and a failure inside one of them does
\* not prevent the following ones from running and writing: none of them
\* is refused by the store on account of the connection the failed one left
\* behind.
C21_IndependentSubSyncs ==
    /\ [](\A e \in Executors :
              (call[e].id # 0 /\ pc[e] \in {"positions", "forecast", "metrics"})
              => Len(call[e].counts) = ReturnedAt(pc[e]))
    /\ [][\A e \in Executors :
              (PositionsFailed(e) /\ Refused(e))
              => ~(db_lock.held /\ ~db_lock.live /\ db_lock.by = e)]_vars

\* The rows of a table that the pass with this id committed.
RowsBy(table, id) == Cardinality({ r \in table : r.pass = id })

\* The step appends the log row of the pass of e.
LogsRow(e) ==
    /\ pc[e] = "log"
    /\ Len(sync_log') = Len(sync_log) + 1
    /\ sync_log'[Len(sync_log')].pass = call[e].id

\* C22: the records_processed of a SUCCESS log row is the sum of the three
\* sub-sync counts, each of them the number of rows that sub-sync inserted
\* and committed in the pass, 0 when it failed or found no usable row; an
\* ERROR row records 0.
C22_RecordsProcessed ==
    [][\A e \in Executors :
          LogsRow(e) =>
             LET row == sync_log'[Len(sync_log')]
                 counts == call[e].counts
             IN /\ row.status = "SUCCESS" =>
                      /\ Len(counts) = 3
                      /\ row.records_processed = SumSeq(counts)
                      /\ counts[1] = RowsBy(cash_positions, call[e].id)
                      /\ counts[2] = RowsBy(cash_flow_forecast, call[e].id)
                      /\ counts[3] = RowsBy(key_metrics, call[e].id)
                      /\ \A name \in call[e].raised :
                            counts[ReturnedAt(name) + 1] = 0
                /\ row.status = "ERROR" => row.records_processed = 0]_vars

\* A SUCCESS row of a pass in which one sub-sync committed rows and another
\* failed.
C22_Witness ==
    \E i \in DOMAIN sync_log :
        /\ sync_log[i].status = "SUCCESS"
        /\ sync_log[i].records_processed > 0
        /\ last["main"].id = sync_log[i].pass
        /\ last["main"].raised # {}
        /\ \E k \in DOMAIN last["main"].counts : last["main"].counts[k] > 0

\* The months of a window that are to give a record: the label in row 2 is
\* present and is not the text "nan".
LabelledMonths(window) ==
    SelectSeq(window, LAMBDA m : notna(m.label) /\ str(m.label) # "nan")

\* The number a cell of rows 4..6 is stored as: 0 when it is missing or not
\* numeric.
StoredAs(c) == IF Coercible(c) THEN to_numeric(c).n ELSE 0

\* The records the windows of the sheet are to give, in column order.
ExpectedForecast(dash) ==
    LET m25 == IF dash.ncols > 12 THEN LabelledMonths(dash.w25) ELSE <<>>
        m24 == IF dash.ncols > 26 THEN LabelledMonths(dash.w24) ELSE <<>>
    IN [i \in 1..Len(m25) |->
          [month |-> str(m25[i].label), year |-> 2025,
           inflow |-> StoredAs(m25[i].inflow),
           outflow |-> StoredAs(m25[i].outflow),
           net_flow |-> StoredAs(m25[i].net),
           forecast_type |-> "FORECAST"]]
       \o [i \in 1..Len(m24) |->
             [month |-> str(m24[i].label), year |-> 2024,
              inflow |-> StoredAs(m24[i].inflow),
              outflow |-> StoredAs(m24[i].outflow),
              net_flow |-> StoredAs(m24[i].net),
              forecast_type |-> "HISTORICAL"]]

\* C23: the forecast sub-sync inserts one record per month column of each
\* window (columns 1-12 as 2025 FORECAST, columns 15-26 as 2024 HISTORICAL)
\* whose label is present and not "nan"; a missing or non-numeric inflow,
\* outflow or net cell is stored as 0 without the month being skipped, and
\* net_flow is stored as read.
C23_ForecastMapper ==
    Committed("forecast") =>
        { <<r.k, r.data>> : r \in RowsOfPass(cash_flow_forecast) }
            = { <<i, ExpectedForecast(call["main"].dash_sheet)[i]>> :
                  i \in DOMAIN ExpectedForecast(call["main"].dash_sheet) }

\* The columns of 'Lista contas' whose row-100 cell is numeric and not zero,
\* when the accessors get as far as the row.
Row100Hits(b, minrows) ==
    IF b.at = "absent" \/ ~b.lista.present \/ b.lista.nrows <= minrows THEN {}
    ELSE { i \in DOMAIN b.lista.cols : Denotes(b.lista.cols[i].r100) # 0 }

\* The value of the right-most of them, 0 when there is none.
RightMostValue(b, minrows) ==
    LET hits == Row100Hits(b, minrows)
    IN IF hits = {} THEN 0
       ELSE Denotes(b.lista.cols[CHOOSE i \in hits :
                                     \A j \in hits : j <= i].r100)

\* C24: get_latest_variation returns the right-most numeric non-zero cell
\* of row 100, 'positive' when it is greater than or equal to 0 and
\* 'negative' otherwise; with no such cell, a sheet of at most 100 rows or
\* no workbook it returns 0.0, 'positive'.
C24_LatestVariation ==
    (result.ran /\ result.accessor = "get_latest_variation")
    => LET v == RightMostValue(result.book, 100)
       IN /\ result.res.out.variation = v
          /\ result.res.out.color = IF v >= 0 THEN "positive" ELSE "negative"
          /\ Row100Hits(result.book, 100) = {} =>
                result.res.out = ZeroVariation

\* A negative variation found to the left of a zero cell and an empty one.
C24_Witness ==
    /\ result.ran
    /\ result.accessor = "get_latest_variation"
    /\ result.res.out.color = "negative"
    /\ \E i \in Row100Hits(result.book, 100) :
          /\ \E j \in DOMAIN result.book.lista.cols :
                j > i /\ result.book.lista.cols[j].r100 = Num(0)
          /\ \E j \in Row100Hits(result.book, 100) : j < i

\* C28: on a sheet of more than 101 rows the cash_flow of
\* get_daily_cash_flow (left to right, last hit kept) equals the variation
\* of get_latest_variation (right to left, first hit returned): both are
\* the right-most numeric non-zero cell of row 100, 0.0 when there is none.
C28_ScansAgree ==
    (/\ result.ran /\ prior.ran
     /\ result.book = prior.book
     /\ result.accessor = "get_daily_cash_flow"
     /\ prior.accessor = "get_latest_variation"
     /\ result.book.at # "absent"
     /\ result.book.lista.present
     /\ result.book.lista.nrows > 101)
    => /\ result.res.out.cash_flow = prior.res.out.variation
       /\ result.res.out.cash_flow = RightMostValue(result.book, 101)

\* Both accessors were run on a row 100 whose right-most hit is neither
\* its first hit nor its last cell.
C28_Witness ==
    /\ result.ran /\ prior.ran
    /\ result.book = prior.book
    /\ result.accessor = "get_daily_cash_flow"
    /\ prior.accessor = "get_latest_variation"
    /\ result.book.lista.nrows > 101
    /\ Cardinality(Row100Hits(result.book, 101)) >= 2
    /\ result.res.out.cash_flow # 0
    /\ Denotes(result.book.lista.cols[Len(result.book.lista.cols)].r100) = 0

\* The pass the thread finished last read its sheets, had no sub-sync fail
\* and committed the three tables on that day.
CompletedOn(e, day) ==
    /\ call[e].id = 0
    /\ last[e].id # 0
    /\ last[e].status = "SUCCESS"
    /\ last[e].raised = {}
    /\ Len(last[e].counts) = 3
    /\ \A name \in {"positions", "forecast", "metrics"} :
          <<name, day>> \in last[e].wrote

\* The passes whose rows the three tables hold.
PassesInTables ==
    { r.pass : r \in cash_positions \cup cash_flow_forecast \cup key_metrics }

\* C25: when the passes of the two threads overlapped and both have
\* finished, the day's rows of cash_positions, cash_flow_forecast and
\* key_metrics all come from one of them.  (Two complete passes that did not
\* overlap always leave the rows of the later one, so the property can only
\* fail through an overlap.)
C25_OnePassPerDay ==
    (\E day \in 0..MaxClock : \A e \in Executors : CompletedOn(e, day))
    => Cardinality(PassesInTables) <= 1

\* The step is the commit of the named sub-sync of the pass of e.
CommitsTable(e, name) ==
    /\ pc[e] = name
    /\ <<name, LocalDate(clock, tz)>> \in call'[e].wrote

\* The rows of the table that an earlier pass inserted on the local
\* calendar day the step happens on.
SameLocalDay(table, e) ==
    { r \in table : r.pass # call[e].id /\ RowDay(r) = LocalDate(clock, tz) }

\* C26: the day-scoped delete of a sub-sync removes every row an earlier
\* pass inserted into the table on the same local calendar day, whatever
\* the offset between the local clock and the UTC clock that stamps
\* last_updated.
C26_DeleteCoversLocalDay ==
    [][\A e \in Executors :
          /\ CommitsTable(e, "positions") =>
                SameLocalDay(cash_positions, e) \cap cash_positions' = {}
          /\ CommitsTable(e, "forecast") =>
                SameLocalDay(cash_flow_forecast, e)
                   \cap cash_flow_forecast' = {}]_vars

\* The rows of the table whose stored last_updated date is before the
\* "today" of a pass that runs now.
EarlierDays(table) ==
    { r \in table : UtcDate(r.last_updated) < LocalDate(clock, tz) }

\* C27: no step of a pass deletes or changes a row of cash_positions or
\* cash_flow_forecast whose last_updated date (the date the store computes
\* from the stamp) is earlier than the "today" of the pass.
C27_EarlierDaysKept ==
    [][/\ EarlierDays(cash_positions) \subseteq cash_positions'
       /\ EarlierDays(cash_flow_forecast) \subseteq cash_flow_forecast']_vars

\* Both tables hold rows of an earlier day after a later pass has replaced
\* the day's rows of both.
C27_Witness ==
    \E e \in Executors :
        /\ <<"positions", LocalDate(clock, tz)>> \in call[e].wrote
        /\ <<"forecast", LocalDate(clock, tz)>> \in call[e].wrote
        /\ \E r \in EarlierDays(cash_positions) : r.pass < call[e].id
        /\ \E r \in EarlierDays(cash_flow_forecast) : r.pass < call[e].id
        /\ \E r \in cash_positions : r.pass = call[e].id
        /\ \E r \in cash_flow_forecast : r.pass = call[e].id

\* C29: a call through the memo made more than TTL seconds after the last
\* change of the workbook returns what the accessor computes from the
\* workbook as it is now, without a refresh: either the body runs, or the
\* entry served was computed after the change.
C29_StaleBound ==
    [][\A a \in Accessors :
          (CallOf(a) /\ edited >= 0 /\ now - edited > TTL) =>
             LET at == IF result'.ran THEN now ELSE cache[a].at
             IN /\ at >= edited
                /\ result'.res = Underlying(a, book, at)]_vars

\* The fallback memoised while the file was absent was served within the
\* TTL of the appearance of the workbook, and a call more than TTL seconds
\* after it ran the body and returned something else.
C29_Witness ==
    /\ edited >= 0
    /\ now - edited > TTL
    /\ cleared = -1
    /\ book.at # "absent"
    /\ prior.accessor = result.accessor
    /\ ~prior.ran
    /\ prior.res = Underlying(prior.accessor,
                              BookOf("absent", NoLista, NoTabelas), 0)
    /\ result.ran
    /\ result.res # prior.res

\* The positions of the session list at which the step changed a request.
ChangedDeals ==
    { i \in DOMAIN session_fx_deals :
         session_fx_deals'[i] # session_fx_deals[i] }

\* C30: no two requests of the session list share an id, so an approval
\* changes the status of exactly one request and a rejection removes
\* exactly one.
C30_UniqueDealIds ==
    /\ [](\A i, j \in DOMAIN session_fx_deals :
             session_fx_deals[i].id = session_fx_deals[j].id => i = j)
    /\ [][/\ (Len(session_fx_deals') = Len(session_fx_deals)
              /\ session_fx_deals' # session_fx_deals)
             => Cardinality(ChangedDeals) = 1
          /\ Len(session_fx_deals') < Len(session_fx_deals)
             => Len(session_fx_deals') = Len(session_fx_deals) - 1]_vars

====
